---- MODULE Spec2Model ----
(***************************************************************************)
(* A model of morello's top-down synthesis engine (morello/src/search.rs): *)
(* the ImplReducer, the SpecTask coroutine, the BlockSearch wave loop and  *)
(* the top_down_many driver.                                               *)
(***************************************************************************)
EXTENDS Integers, Sequences, FiniteSets, TLC

(***************************************************************************)
(* Bounds of the ImplReducer exploration.                                  *)
(***************************************************************************)
MaxTopK == 2
MaxActionIdx == 2
MaxCost == 3
MaxInserts == 3

VARIABLES
    reducer,      \* the ImplReducer under test: [top_k, preferences, results]
    offered,      \* history: the set of <<cost, action_idx>> pairs inserted so far
    inserts,      \* history: number of insert calls so far
    lastInsert,   \* history: [before, cand, after] of the last insert, or NoInsert
    tieWhenFull,  \* history: some insert met a full reducer holding its cost
    allDistinct,  \* history: the action indices inserted so far were pairwise distinct
    finalized     \* the vector returned by finalize, or NotFinalized

rvars == <<reducer, offered, inserts, lastInsert, tieWhenFull, allDistinct, finalized>>

NoInsert == [before |-> {}, cand |-> <<0, 0>>, after |-> {}, fresh |-> FALSE]
NotFinalized == <<"not finalized">>

ActionIdxs == 0 .. MaxActionIdx
Costs == 1 .. MaxCost

(***************************************************************************)
(* (Cost, ActionIdx) tuples and their derived lexicographic order.         *)
(***************************************************************************)
PairLess(x, y) == x[1] < y[1] \/ (x[1] = y[1] /\ x[2] < y[2])

MinPair(S) == CHOOSE x \in S : \A y \in S : x = y \/ PairLess(x, y)

MaxPair(S) == CHOOSE x \in S : \A y \in S : x = y \/ PairLess(y, x)

\* BTreeSet iteration: the elements in ascending (cost, action_idx) order.
RECURSIVE BTreeIter(_)
BTreeIter(S) ==
    IF S = {} THEN <<>>
    ELSE LET m == MinPair(S) IN <<m>> \o BTreeIter(S \ {m})

\* ImplReducer::new. results is the content of One(..) (at most one pair) when
\* top_k = 1 and of Many(..) otherwise.
ImplReducerNew(top_k, preferences) ==
    [top_k |-> top_k, preferences |-> preferences, results |-> {}]

\* Mutant of PreferenceReplace: a tie never replaces anything.
PreferenceReplaceNever(r, new_action) == r.results

\* Mutant of PreferenceReplace: a preferred action replaces the position-0 pair.
PreferenceReplaceFirst(r, new_action) ==
    LET actions == BTreeIter(r.results)
    IN  IF \E i \in 1 .. Len(r.preferences) : r.preferences[i] = new_action[2]
        THEN (r.results \ {actions[1]}) \cup {new_action}
        ELSE r.results

\* The Many branch, reducer full, a held pair has the candidate's cost.
PreferenceReplace(r, new_action) ==
    LET actions == BTreeIter(r.results)
        hits == {i \in 1 .. Len(actions) :
                    /\ i <= Len(r.preferences)
                    /\ actions[i][1] = new_action[1]
                    /\ r.preferences[i] = new_action[2]}
    IN  IF hits = {} THEN r.results
        ELSE LET i == CHOOSE j \in hits : \A k \in hits : j <= k
             IN (r.results \ {actions[i]}) \cup {new_action}

\* Mutant of CostReplace: the candidate is dropped.
CostReplaceDropsNew(r, new_action) == r.results

\* Mutant of CostReplace: pop_first instead of pop_last.
CostReplacePopFirst(r, new_action) ==
    LET u == r.results \cup {new_action} IN u \ {MinPair(u)}

\* The Many branch, reducer full, no held pair has the candidate's cost.
CostReplace(r, new_action) ==
    LET u == r.results \cup {new_action} IN u \ {MaxPair(u)}

\* Mutant of ImplReducerInsert: the Many branch behaves like One (a single slot).
ImplReducerInsertSingleSlot(r, new_action_idx, new_cost) ==
    LET new_action == <<new_cost, new_action_idx>>
    IN [r EXCEPT !.results =
          IF r.results = {} THEN {new_action}
          ELSE IF PairLess(new_action, MinPair(r.results))
               THEN {new_action} ELSE r.results]

\* Mutant of ImplReducerInsert: the One branch compares costs only and lets the
\* later of two equal-cost candidates win.
ImplReducerInsertOneByCost(r, new_action_idx, new_cost) ==
    LET new_action == <<new_cost, new_action_idx>>
        res ==
          IF r.top_k = 1
          THEN IF r.results = {} THEN {new_action}
               ELSE IF new_cost <= MinPair(r.results)[1]
                    THEN {new_action} ELSE r.results
          ELSE IF Cardinality(r.results) < r.top_k
               THEN r.results \cup {new_action}
               ELSE IF \E x \in r.results : x[1] = new_cost
                    THEN PreferenceReplace(r, new_action)
                    ELSE CostReplace(r, new_action)
    IN [r EXCEPT !.results = res]

\* Mutant of ImplReducerInsert: the pair is recorded under the action index of
\* the best held pair instead of its own.
ImplReducerInsertIndexOfBest(r, new_action_idx, new_cost) ==
    LET new_action == <<new_cost, IF r.results = {} THEN new_action_idx
                                  ELSE MinPair(r.results)[2]>>
        res ==
          IF r.top_k = 1
          THEN IF r.results = {} THEN {new_action}
               ELSE IF PairLess(new_action, MinPair(r.results))
                    THEN {new_action} ELSE r.results
          ELSE IF Cardinality(r.results) < r.top_k
               THEN r.results \cup {new_action}
               ELSE IF \E x \in r.results : x[1] = new_cost
                    THEN PreferenceReplace(r, new_action)
                    ELSE CostReplace(r, new_action)
    IN [r EXCEPT !.results = res]

\* ImplReducer::insert
ImplReducerInsert(r, new_action_idx, new_cost) ==
    LET new_action == <<new_cost, new_action_idx>>
        res ==
          IF r.top_k = 1
          THEN IF r.results = {} THEN {new_action}
               ELSE IF PairLess(new_action, MinPair(r.results))
                    THEN {new_action} ELSE r.results
          ELSE IF Cardinality(r.results) < r.top_k
               THEN r.results \cup {new_action}
               ELSE IF \E x \in r.results : x[1] = new_cost
                    THEN PreferenceReplace(r, new_action)
                    ELSE CostReplace(r, new_action)
    IN [r EXCEPT !.results = res]

\* Mutant of ImplReducerFinalize: the pairs come out in descending order.
ImplReducerFinalizeReversed(r) ==
    LET actions == BTreeIter(r.results)
        n == Len(actions)
    IN [i \in 1 .. n |-> <<actions[n + 1 - i][2], actions[n + 1 - i][1]>>]

\* ImplReducer::finalize: (action_idx, cost) pairs in the set's order.
ImplReducerFinalize(r) ==
    LET actions == BTreeIter(r.results)
    IN [i \in 1 .. Len(actions) |-> <<actions[i][2], actions[i][1]>>]

(***************************************************************************)
(* The reducer on its own: new, any sequence of inserts, finalize.         *)
(***************************************************************************)
RECURSIVE SeqsUpTo(_, _)
SeqsUpTo(S, n) ==
    IF n = 0 THEN {<<>>}
    ELSE LET shorter == SeqsUpTo(S, n - 1)
         IN shorter \cup
            {Append(p, a) : p \in {q \in shorter : Len(q) = n - 1}, a \in S}

IsInjective(s) == \A i, j \in 1 .. Len(s) : i # j => s[i] # s[j]

RInit ==
    /\ \E top_k \in 1 .. MaxTopK :
       \E preferences \in {p \in SeqsUpTo(ActionIdxs, top_k) : IsInjective(p)} :
          reducer = ImplReducerNew(top_k, preferences)
    /\ offered = {}
    /\ inserts = 0
    /\ lastInsert = NoInsert
    /\ tieWhenFull = FALSE
    /\ allDistinct = TRUE
    /\ finalized = NotFinalized

RInsert ==
    /\ finalized = NotFinalized
    /\ inserts < MaxInserts
    /\ \E a \in ActionIdxs, c \in Costs :
         LET after == ImplReducerInsert(reducer, a, c) IN
         /\ reducer' = after
         /\ offered' = offered \cup {<<c, a>>}
         /\ lastInsert' = [before |-> reducer.results, cand |-> <<c, a>>,
                           after |-> after.results, fresh |-> TRUE]
         /\ tieWhenFull' = (tieWhenFull \/
                              (/\ reducer.top_k > 1
                               /\ Cardinality(reducer.results) >= reducer.top_k
                               /\ \E x \in reducer.results : x[1] = c))
         /\ allDistinct' = (allDistinct /\ \A x \in offered : x[2] # a)
    /\ inserts' = inserts + 1
    /\ UNCHANGED finalized

RFinalize ==
    /\ finalized = NotFinalized
    /\ finalized' = ImplReducerFinalize(reducer)
    /\ lastInsert' = [lastInsert EXCEPT !.fresh = FALSE]
    /\ UNCHANGED <<reducer, offered, inserts, tieWhenFull, allDistinct>>



(***************************************************************************)
(* The search universe.  Canonical Specs are 0 .. NumSpecs-1; the           *)
(* sub-Specs of a Spec have lower numbers (the dependency relation is       *)
(* acyclic).  A goal handed to top_down_many is a pair <<spec, slack>>:     *)
(* slack = 1 stands for memory limits left non-zero at levels slower than   *)
(* every operand, which Spec::canonicalize zeroes.                          *)
(***************************************************************************)
NumSpecs == 3
NumActions == 2
MaxSubspecs == 2
MaxLeafCost == 1
NumPages == 3

Specs == 0 .. NumSpecs - 1
Pages == 0 .. NumPages - 1
RawGoals == Specs \X {0, 1}

\* Option<Cost> and Option<Vec<ActionIdx>>: <<>> is None, <<c>> is Some(c).
None == <<>>
Some(c) == <<c>>

\* What applying one action to a Spec yields: Err(ActionNotApplicable |
\* OutOfMemory), an Impl without sub-Specs ("leaf", with its Cost::from_impl),
\* or an Impl with nested sub-Specs ("node", with the node's own cost).
FailOutcome == [kind |-> "fail", cost |-> 0, subspecs |-> <<>>]

Outcomes(s) ==
    {FailOutcome}
    \cup {[kind |-> "leaf", cost |-> c, subspecs |-> <<>>] : c \in 1 .. MaxLeafCost}
    \cup {[kind |-> "node", cost |-> 1, subspecs |-> ss] :
             ss \in SeqsUpTo(0 .. s - 1, MaxSubspecs) \ {<<>>}}

\* LogicalSpec::actions: the ordered action list of every Spec, element s+1
\* for Spec s, each action given by what apply() yields on that Spec.
RECURSIVE ActionTables(_)
ActionTables(n) ==
    IF n = 0 THEN {<<>>}
    ELSE {Append(t, al) : t \in ActionTables(n - 1),
                          al \in [1 .. NumActions -> Outcomes(n - 1)]}

\* FilesDatabase::page_id: a total map from Specs to pages.  Pages are named
\* in order of first use (page names carry no meaning).
PageMaps ==
    {pm \in [Specs -> Pages] :
        \A s \in Specs : \A p \in 0 .. pm[s] - 1 : \E t \in 0 .. s - 1 : pm[t] = p}

\* Spec::canonicalize
Canonicalize(g) == g[1]

VARIABLES
    world         \* [actions, page, max_k]: the Spec algebra and the database layout

ApplyAction(spec, action_idx) == world.actions[spec + 1][action_idx + 1]

PageOf(spec) == world.page[spec]

\* Cost::from_child_costs for the node's main cost: its own cost plus its
\* children's.
RECURSIVE SumCosts(_)
SumCosts(cs) == IF cs = <<>> THEN 0 ELSE cs[1] + SumCosts(Tail(cs))

FromChildCosts(imp, child_costs) == imp.cost + SumCosts(child_costs)

ComputeImplCostOfNodeOnly(imp, costs) == FromChildCosts(imp, <<>>)

\* compute_impl_cost: the children's costs are consumed in sub-Spec order.
ComputeImplCost(imp, costs) ==
    FromChildCosts(imp, [i \in 1 .. Len(imp.subspecs) |-> costs[i]])

(***************************************************************************)
(* SpecTask                                                                *)
(***************************************************************************)
Complete(result, from_db) ==
    [state |-> "Complete", result |-> result, from_db |-> from_db]

Constructing(imp, action_idx) ==
    [state |-> "Constructing", partial_impl |-> imp, subspecs |-> imp.subspecs,
     subspec_costs |-> [i \in 1 .. Len(imp.subspecs) |-> None],
     producing_action_idx |-> action_idx]

\* Mutant of RotatedOrder: the enumeration stops at the end of the list
\* instead of wrapping around to the skipped indices.
RotatedOrderWithoutWrap(n, thread_idx, thread_count) ==
    LET initial_skip == (thread_idx * n) \div thread_count
    IN [i \in 1 .. n - initial_skip |-> initial_skip + i - 1]

\* The rotated enumeration (initial_skip..n).chain(0..initial_skip).
RotatedOrder(n, thread_idx, thread_count) ==
    LET initial_skip == (thread_idx * n) \div thread_count
    IN [i \in 1 .. n - initial_skip |-> initial_skip + i - 1]
         \o [i \in 1 .. initial_skip |-> i - 1]

RECURSIVE StartLoop(_, _, _)

\* Mutant of StartLoop: an action that fails to apply is costed as an Impl
\* without sub-Specs.
StartLoopCostsFailed(goal, order, acc) ==
    IF order = <<>> THEN acc
    ELSE LET action_idx == order[1]
             imp == ApplyAction(goal, action_idx)
             next ==
               CASE imp.kind \in {"fail", "leaf"} ->
                      [acc EXCEPT !.reducer =
                          ImplReducerInsert(acc.reducer, action_idx, imp.cost)]
                 [] OTHER ->
                      [acc EXCEPT
                         !.partial_impls = Append(@, Constructing(imp, action_idx)),
                         !.partial_impls_incomplete = @ + 1,
                         !.max_children =
                            IF Len(imp.subspecs) > @ THEN Len(imp.subspecs) ELSE @]
         IN StartLoop(goal, Tail(order), next)

\* The loop of SpecTask::start over the rotated action indices.
StartLoop(goal, order, acc) ==
    IF order = <<>> THEN acc
    ELSE LET action_idx == order[1]
             imp == ApplyAction(goal, action_idx)
             next ==
               CASE imp.kind = "fail" -> acc
                 [] imp.kind = "leaf" ->
                      [acc EXCEPT !.reducer =
                          ImplReducerInsert(acc.reducer, action_idx, imp.cost)]
                 [] OTHER ->
                      [acc EXCEPT
                         !.partial_impls = Append(@, Constructing(imp, action_idx)),
                         !.partial_impls_incomplete = @ + 1,
                         !.max_children =
                            IF Len(imp.subspecs) > @ THEN Len(imp.subspecs) ELSE @]
         IN StartLoop(goal, Tail(order), next)

\* SpecTask::start
SpecTaskStart(goal, preferences, top_k, thread_idx, thread_count) ==
    LET init == [state |-> "Running",
                 reducer |->
                    ImplReducerNew(top_k, IF preferences = None THEN <<>>
                                          ELSE preferences[1]),
                 partial_impls |-> <<>>,
                 partial_impls_incomplete |-> 0,
                 request_batches_returned |-> 0,
                 max_children |-> 0]
        Started(run) ==
            IF run.partial_impls_incomplete = 0
            THEN Complete(ImplReducerFinalize(run.reducer), FALSE)
            ELSE run
    IN Started(StartLoop(goal, RotatedOrder(NumActions, thread_idx, thread_count), init))

RECURSIVE BatchOf(_, _, _)

\* Mutant of BatchOf: a request is yielded for every partial with such a
\* sub-Spec, Constructing or not.
BatchOfEveryPartial(partial_impls, subspec_idx, i) ==
    IF i > Len(partial_impls) THEN <<>>
    ELSE LET p == partial_impls[i]
             here == IF subspec_idx < Len(p.subspecs)
                     THEN <<<<p.subspecs[subspec_idx + 1], <<i - 1, subspec_idx>>>>>>
                     ELSE <<>>
         IN here \o BatchOf(partial_impls, subspec_idx, i + 1)

\* The requests next_request_batch yields for batch subspec_idx (0-based):
\* (sub-Spec, (partial index, subspec_idx)) for each Constructing partial
\* that has such a sub-Spec, by ascending partial index.
BatchOf(partial_impls, subspec_idx, i) ==
    IF i > Len(partial_impls) THEN <<>>
    ELSE LET p == partial_impls[i]
             here == IF p.state = "Constructing" /\ subspec_idx < Len(p.subspecs)
                     THEN <<<<p.subspecs[subspec_idx + 1], <<i - 1, subspec_idx>>>>>>
                     ELSE <<>>
         IN here \o BatchOf(partial_impls, subspec_idx, i + 1)

\* Mutant of NextRequestBatch: no batch is yielded while a Constructing
\* partial still waits for a cost of an earlier batch.
NextRequestBatchWaits(task) ==
    IF task.state # "Running"
       \/ task.request_batches_returned = task.max_children
       \/ \E i \in 1 .. Len(task.partial_impls) :
            /\ task.partial_impls[i].state = "Constructing"
            /\ \E j \in 1 .. Len(task.partial_impls[i].subspecs) :
                 /\ j <= task.request_batches_returned
                 /\ task.partial_impls[i].subspec_costs[j] = None
    THEN [task |-> task, some |-> FALSE, batch |-> <<>>]
    ELSE [task |-> [task EXCEPT !.request_batches_returned = @ + 1],
          some |-> TRUE,
          batch |-> BatchOf(task.partial_impls, task.request_batches_returned, 1)]

\* SpecTask::next_request_batch: [task, some, batch]; some = FALSE is None.
NextRequestBatch(task) ==
    IF task.state # "Running"
       \/ task.request_batches_returned = task.max_children
    THEN [task |-> task, some |-> FALSE, batch |-> <<>>]
    ELSE [task |-> [task EXCEPT !.request_batches_returned = @ + 1],
          some |-> TRUE,
          batch |-> BatchOf(task.partial_impls, task.request_batches_returned, 1)]

\* SpecTask::resolve_request: [task, panic].  panic names the panic! (or the
\* failed unwrap) the call ends in, "" when it returns.  SlotAlreadyResolved
\* is the condition of its debug_assert!.
SlotAlreadyResolved(task, id, cost) ==
    /\ task.state = "Running"
    /\ task.partial_impls_incomplete > 0
    /\ id[1] + 1 <= Len(task.partial_impls)
    /\ task.partial_impls[id[1] + 1].state = "Constructing"
    /\ cost # None
    /\ task.partial_impls[id[1] + 1].subspec_costs[id[2] + 1] # None

\* Mutant of ResolveRequest: the partial is offered to the reducer at every
\* slot that is filled, with the costs it has so far.
ResolveRequestOffersEveryFill(task, id, cost) ==
    IF task.state # "Running" THEN [task |-> task, panic |-> "Task is not running"]
    ELSE IF task.partial_impls_incomplete = 0 THEN [task |-> task, panic |-> ""]
    ELSE
    LET entry == task.partial_impls[id[1] + 1] IN
    CASE entry.state = "Sat" ->
           [task |-> task, panic |-> "Resolved a request for an already-completed Spec"]
      [] entry.state = "Unsat" -> [task |-> task, panic |-> ""]
      [] OTHER ->
           LET filled == IF cost = None THEN entry.subspec_costs
                         ELSE [entry.subspec_costs EXCEPT ![id[2] + 1] = cost]
               all_some == \A i \in 1 .. Len(filled) : filled[i] # None
               finished == cost = None \/ all_some
               entry2 ==
                 IF cost = None THEN [entry EXCEPT !.state = "Unsat"]
                 ELSE IF all_some
                      THEN [entry EXCEPT !.state = "Sat", !.subspec_costs = filled]
                      ELSE [entry EXCEPT !.subspec_costs = filled]
               incomplete2 == IF finished THEN task.partial_impls_incomplete - 1
                              ELSE task.partial_impls_incomplete
               Resolved(reducer2) ==
                 IF finished /\ incomplete2 = 0
                 THEN [task |-> Complete(ImplReducerFinalize(reducer2), FALSE),
                       panic |-> ""]
                 ELSE [task |-> [task EXCEPT !.reducer = reducer2,
                                             !.partial_impls[id[1] + 1] = entry2,
                                             !.partial_impls_incomplete = incomplete2],
                       panic |-> ""]
           IN  Resolved(
                 IF cost # None
                 THEN ImplReducerInsert(task.reducer, entry.producing_action_idx,
                         ComputeImplCost(entry.partial_impl,
                                         [i \in 1 .. Len(filled) |->
                                            IF filled[i] = None THEN 0 ELSE filled[i][1]]))
                 ELSE task.reducer)

\* Mutant of ResolveRequest: a resolution addressed to an Unsat partial is
\* counted as finishing a partial once more.
ResolveRequestCountsUnsatAgain(task, id, cost) ==
    IF task.state # "Running" THEN [task |-> task, panic |-> "Task is not running"]
    ELSE IF task.partial_impls_incomplete = 0 THEN [task |-> task, panic |-> ""]
    ELSE
    LET entry == task.partial_impls[id[1] + 1] IN
    CASE entry.state = "Sat" ->
           [task |-> task, panic |-> "Resolved a request for an already-completed Spec"]
      [] OTHER ->
           LET filled == IF cost = None \/ entry.state = "Unsat" THEN entry.subspec_costs
                         ELSE [entry.subspec_costs EXCEPT ![id[2] + 1] = cost]
               all_some == \A i \in 1 .. Len(filled) : filled[i] # None
               unsat == cost = None \/ entry.state = "Unsat"
               finished == unsat \/ all_some
               entry2 ==
                 IF unsat THEN [entry EXCEPT !.state = "Unsat"]
                 ELSE IF all_some
                      THEN [entry EXCEPT !.state = "Sat", !.subspec_costs = filled]
                      ELSE [entry EXCEPT !.subspec_costs = filled]
               incomplete2 == IF finished THEN task.partial_impls_incomplete - 1
                              ELSE task.partial_impls_incomplete
               Resolved(reducer2) ==
                 IF finished /\ incomplete2 = 0
                 THEN [task |-> Complete(ImplReducerFinalize(reducer2), FALSE),
                       panic |-> ""]
                 ELSE [task |-> [task EXCEPT !.reducer = reducer2,
                                             !.partial_impls[id[1] + 1] = entry2,
                                             !.partial_impls_incomplete = incomplete2],
                       panic |-> ""]
           IN  Resolved(
                 IF ~unsat /\ all_some
                 THEN ImplReducerInsert(task.reducer, entry.producing_action_idx,
                         ComputeImplCost(entry.partial_impl,
                                         [i \in 1 .. Len(filled) |-> filled[i][1]]))
                 ELSE task.reducer)

\* Mutant of ResolveRequest: the task completes as soon as one partial is
\* finished.
ResolveRequestCompletesEarly(task, id, cost) ==
    IF task.state # "Running" THEN [task |-> task, panic |-> "Task is not running"]
    ELSE IF task.partial_impls_incomplete = 0 THEN [task |-> task, panic |-> ""]
    ELSE
    LET entry == task.partial_impls[id[1] + 1] IN
    CASE entry.state = "Sat" ->
           [task |-> task, panic |-> "Resolved a request for an already-completed Spec"]
      [] entry.state = "Unsat" -> [task |-> task, panic |-> ""]
      [] OTHER ->
           LET filled == IF cost = None THEN entry.subspec_costs
                         ELSE [entry.subspec_costs EXCEPT ![id[2] + 1] = cost]
               all_some == \A i \in 1 .. Len(filled) : filled[i] # None
               finished == cost = None \/ all_some
               Resolved(reducer2) ==
                 IF finished
                 THEN [task |-> Complete(ImplReducerFinalize(reducer2), FALSE),
                       panic |-> ""]
                 ELSE [task |-> [task EXCEPT
                                   !.partial_impls[id[1] + 1].subspec_costs = filled],
                       panic |-> ""]
           IN  Resolved(
                 IF cost # None /\ all_some
                 THEN ImplReducerInsert(task.reducer, entry.producing_action_idx,
                         ComputeImplCost(entry.partial_impl,
                                         [i \in 1 .. Len(filled) |-> filled[i][1]]))
                 ELSE task.reducer)

\* Mutant of ResolveRequest: the task stays Running when its last partial
\* is finished.
ResolveRequestStaysRunning(task, id, cost) ==
    IF task.state # "Running" THEN [task |-> task, panic |-> "Task is not running"]
    ELSE IF task.partial_impls_incomplete = 0 THEN [task |-> task, panic |-> ""]
    ELSE
    LET entry == task.partial_impls[id[1] + 1] IN
    CASE entry.state = "Sat" ->
           [task |-> task, panic |-> "Resolved a request for an already-completed Spec"]
      [] entry.state = "Unsat" -> [task |-> task, panic |-> ""]
      [] OTHER ->
           LET filled == IF cost = None THEN entry.subspec_costs
                         ELSE [entry.subspec_costs EXCEPT ![id[2] + 1] = cost]
               all_some == \A i \in 1 .. Len(filled) : filled[i] # None
               finished == cost = None \/ all_some
               entry2 ==
                 IF cost = None THEN [entry EXCEPT !.state = "Unsat"]
                 ELSE IF all_some
                      THEN [entry EXCEPT !.state = "Sat", !.subspec_costs = filled]
                      ELSE [entry EXCEPT !.subspec_costs = filled]
               Resolved(reducer2) ==
                 [task |-> [task EXCEPT !.reducer = reducer2,
                                        !.partial_impls[id[1] + 1] = entry2,
                                        !.partial_impls_incomplete =
                                           IF finished THEN @ - 1 ELSE @],
                  panic |-> ""]
           IN  Resolved(
                 IF cost # None /\ all_some
                 THEN ImplReducerInsert(task.reducer, entry.producing_action_idx,
                         ComputeImplCost(entry.partial_impl,
                                         [i \in 1 .. Len(filled) |-> filled[i][1]]))
                 ELSE task.reducer)

ResolveRequest(task, id, cost) ==
    IF task.state # "Running" THEN [task |-> task, panic |-> "Task is not running"]
    ELSE IF task.partial_impls_incomplete = 0 THEN [task |-> task, panic |-> ""]
    ELSE IF id[1] + 1 > Len(task.partial_impls)
         THEN [task |-> task, panic |-> "partial_impls.get_mut unwrap"]
    ELSE
    LET entry == task.partial_impls[id[1] + 1] IN
    CASE entry.state = "Sat" ->
           [task |-> task, panic |-> "Resolved a request for an already-completed Spec"]
      [] entry.state = "Unsat" -> [task |-> task, panic |-> ""]
      [] OTHER ->
           LET filled == IF cost = None THEN entry.subspec_costs
                         ELSE [entry.subspec_costs EXCEPT ![id[2] + 1] = cost]
               all_some == \A i \in 1 .. Len(filled) : filled[i] # None
               finished == cost = None \/ all_some
               entry2 ==
                 IF cost = None THEN [entry EXCEPT !.state = "Unsat"]
                 ELSE IF all_some
                      THEN [entry EXCEPT !.state = "Sat", !.subspec_costs = filled]
                      ELSE [entry EXCEPT !.subspec_costs = filled]
               incomplete2 == IF finished THEN task.partial_impls_incomplete - 1
                              ELSE task.partial_impls_incomplete
               Resolved(reducer2) ==
                 IF finished /\ incomplete2 = 0
                 THEN [task |-> Complete(ImplReducerFinalize(reducer2), FALSE),
                       panic |-> ""]
                 ELSE [task |-> [task EXCEPT !.reducer = reducer2,
                                             !.partial_impls[id[1] + 1] = entry2,
                                             !.partial_impls_incomplete = incomplete2],
                       panic |-> ""]
           IN  Resolved(
                 IF cost # None /\ all_some
                 THEN ImplReducerInsert(task.reducer, entry.producing_action_idx,
                         ComputeImplCost(entry.partial_impl,
                                         [i \in 1 .. Len(filled) |-> filled[i][1]]))
                 ELSE task.reducer)

(***************************************************************************)
(* A SpecTask on its own: started for the goal Spec, then any sequence of   *)
(* next_request_batch and resolve_request calls, those the block search     *)
(* never makes (a request resolved twice, a task resolved after it          *)
(* completed) included.  A panic ends the sequence.                         *)
(***************************************************************************)
MaxCalls == 4
MaxChildCost == 2

VARIABLES
    spec_task,    \* the SpecTask under test
    started,      \* [goal, top_k, thread_idx, thread_count, task]: how it was started
    lastCall,     \* history: [op, id, cost, before, batch, panic] of the last call
    ncalls        \* history: the number of calls made so far

tvars == <<spec_task, started, lastCall, ncalls>>

NoCall == [op |-> "none", id |-> <<0, 0>>, cost |-> <<>>, before |-> <<>>,
           batch |-> <<>>, panic |-> ""]

ChildCosts == {<<>>} \cup {<<c>> : c \in 1 .. MaxChildCost}

\* The RequestIds of the task as started: every slot of every partial.
RequestIds(t) ==
    IF t.state # "Running" THEN {<<0, 0>>}
    ELSE UNION {{<<i - 1, j - 1>> : j \in 1 .. Len(t.partial_impls[i].subspecs)} :
                  i \in 1 .. Len(t.partial_impls)}

TaskIdle ==
    /\ spec_task = [state |-> "Absent"]
    /\ started = [goal |-> 0, top_k |-> 0, thread_idx |-> 0, thread_count |-> 0,
                  task |-> [state |-> "Absent"]]
    /\ lastCall = NoCall
    /\ ncalls = 0

TaskNextRequestBatch ==
    /\ lastCall.panic = ""
    /\ ncalls < MaxCalls
    /\ LET nb == NextRequestBatch(spec_task) IN
       /\ spec_task' = nb.task
       /\ lastCall' = [op |-> IF nb.some THEN "batch" ELSE "no batch",
                       id |-> <<0, 0>>, cost |-> <<>>, before |-> spec_task,
                       batch |-> nb.batch, panic |-> ""]
    /\ ncalls' = ncalls + 1
    /\ UNCHANGED started

TaskResolveRequest ==
    /\ lastCall.panic = ""
    /\ ncalls < MaxCalls
    /\ \E id \in RequestIds(started.task), cost \in ChildCosts :
         LET rr == ResolveRequest(spec_task, id, cost) IN
         /\ spec_task' = rr.task
         /\ lastCall' = [op |-> "resolve", id |-> id, cost |-> cost, before |-> spec_task,
                         batch |-> <<>>, panic |-> rr.panic]
    /\ ncalls' = ncalls + 1
    /\ UNCHANGED started

(***************************************************************************)
(* BlockSearch.  A frame is one invocation of BlockSearch::synthesize: the  *)
(* block's fields, the locals of synthesize and its position (pc).          *)
(* borrowed is the set of Specs whose task is mutably borrowed on the call  *)
(* stack, panic the panic the frame ended in ("" for none), dbg whether a   *)
(* debug_assert! of the frame failed (a debug build panics there), ev the   *)
(* events of the step being taken.                                          *)
(***************************************************************************)
VARIABLES
    db,           \* the database: [Specs -> [present, value]]
    call,         \* the top_down_many call in progress
    workers,      \* the workers of the current page group, each with its stack of frames
    log,          \* history: the call's events and, once joined, each worker's
    tick          \* history: flipped by every step of the call

Absent == [state |-> "Absent"]
EmptyMap == [s \in Specs |-> <<>>]
NotStored == [present |-> FALSE, value |-> <<>>]

Keys(m) == {s \in Specs : m[s] # <<>>}
WorkingSetKeys(c) == {s \in Specs : c.working_set[s].state # "Absent"}
RunningKeys(c) == {s \in Specs : c.working_set[s].state = "Running"}

\* Mutant of FirstCost: an empty ActionCostVec is read as a zero cost.
FirstCostZeroWhenEmpty(results) ==
    IF results = <<>> THEN Some(0) ELSE Some(results[1][2])

\* ActionCostVec -> Option<Cost> of its first element.
FirstCost(results) == IF results = <<>> THEN None ELSE Some(results[1][2])

Emit(c, e) == [c EXCEPT !.ev = Append(@, e)]
Panic(c, msg) == IF c.panic = "" THEN [c EXCEPT !.panic = msg] ELSE c
DebugAssert(c, cond) == IF cond THEN c ELSE [c EXCEPT !.dbg = TRUE]

\* FilesDatabase::get_with_preference: Hit(v) | Miss(preferences).
DbGetWithPreference(spec) ==
    IF db[spec].present
    THEN [hit |-> TRUE, value |-> db[spec].value, preferences |-> None]
    ELSE [hit |-> FALSE, value |-> <<>>, preferences |-> None]

\* BlockSearch::spec_in_working_set compares with the page of an arbitrary
\* key of the working set: it holds for every choice of that key iff every
\* key shares the Spec's page.
SpecInWorkingSet(c, spec) ==
    \A k \in WorkingSetKeys(c) : PageOf(k) = PageOf(spec)

SpecNotInWorkingSet(c, spec) ==
    \A k \in WorkingSetKeys(c) : PageOf(k) # PageOf(spec)

\* Mutant of GetTaskInternal: a started task is not added to the running count.
GetTaskInternalUncounted(c, spec) ==
    IF c.working_set[spec].state # "Absent" THEN c
    ELSE LET got == DbGetWithPreference(spec)
             Entered(c2, task) == [c2 EXCEPT !.working_set[spec] = task]
         IN  IF got.hit
             THEN Entered(Emit(c, <<"get", spec, TRUE>>), Complete(got.value, TRUE))
             ELSE Entered(Emit(Emit(c, <<"get", spec, FALSE>>), <<"start", spec>>),
                          SpecTaskStart(spec, got.preferences, c.search.top_k,
                                        c.search.thread_idx, c.search.thread_count))

\* BlockSearch::get_task_internal
GetTaskInternal(c, spec) ==
    IF c.working_set[spec].state # "Absent" THEN c
    ELSE LET got == DbGetWithPreference(spec)
             Entered(c2, task) ==
                [c2 EXCEPT !.working_set[spec] = task,
                           !.working_set_running =
                              IF task.state = "Running" THEN @ + 1 ELSE @]
         IN  IF got.hit
             THEN Entered(Emit(c, <<"get", spec, TRUE>>), Complete(got.value, TRUE))
             ELSE Entered(Emit(Emit(c, <<"get", spec, FALSE>>), <<"start", spec>>),
                          SpecTaskStart(spec, got.preferences, c.search.top_k,
                                        c.search.thread_idx, c.search.thread_count))

\* BlockSearch::add_request_mapping_internal
AddRequestMappingInternal(c, spec, subspec, request_id) ==
    LET c1 == DebugAssert(c, SpecInWorkingSet(c, spec) /\ SpecInWorkingSet(c, subspec))
    IN [c1 EXCEPT !.working_block_requests[subspec] = Append(@, <<spec, request_id>>)]

\* BlockSearch::add_request_mapping_external
AddRequestMappingExternal(c, spec, subspec, request_id) ==
    LET c1 == DebugAssert(c, SpecInWorkingSet(c, spec) /\ SpecNotInWorkingSet(c, subspec))
        found == {i \in 1 .. Len(c.subblock_requests) :
                    \E k \in Keys(c.subblock_requests[i]) : PageOf(k) = PageOf(subspec)}
    IN  IF found # {}
        THEN LET i == CHOOSE j \in found : \A k \in found : j <= k
             IN [c1 EXCEPT !.subblock_requests[i][subspec] = Append(@, <<spec, request_id>>)]
        ELSE LET c2 == IF c.subblock_requests = <<>>
                       THEN Emit(c1, <<"prefetch", spec>>) ELSE c1
             IN [c2 EXCEPT !.subblock_requests =
                    Append(@, [EmptyMap EXCEPT ![subspec] = <<<<spec, request_id>>>>])]

\* Mutant of CountCompletion: the completion is not counted.
CountCompletionMissed(c) == c

\* A task completed by resolve_request: the running count drops.
CountCompletion(c) ==
    IF c.working_set_running = 0
    THEN Panic(c, "attempt to subtract with overflow")
    ELSE [c EXCEPT !.working_set_running = @ - 1]

RECURSIVE VisitSpecInternal(_, _)
RECURSIVE VisitNextRequestBatch(_, _)
RECURSIVE BatchLoop(_, _, _)
RECURSIVE InnerResolveRequest(_, _, _, _)
RECURSIVE ResolveLoop(_, _, _)

\* Mutant of BatchLoop: a task completed by an in-place resolution notifies
\* its waiters at once instead of going through the outbox.
BatchLoopCascading(c, spec, batch) ==
    IF batch = <<>> \/ c.panic # "" THEN c
    ELSE
    LET subspec == batch[1][1]
        request_id == batch[1][2]
        Completed(c3, rr) ==
          IF rr.panic # "" THEN Panic(c3, rr.panic)
          ELSE IF rr.task.state = "Complete"
          THEN InnerResolveRequest(
                  CountCompletion([c3 EXCEPT !.working_set[spec] = rr.task]),
                  "wbr", spec, rr.task.result)
          ELSE [c3 EXCEPT !.working_set[spec] = rr.task]
        ResolveInPlace(c1, task, cost) ==
          Completed(Emit(c1, <<"resolve", spec, request_id, cost, "inplace">>),
                    ResolveRequest(task, request_id, cost))
        Visited(c1) ==
          IF c1.panic # "" THEN c1
          ELSE IF subspec \in c1.borrowed
          THEN Panic(c1, "already mutably borrowed: BorrowError")
          ELSE IF c1.working_set[subspec].state = "Running"
          THEN AddRequestMappingInternal(c1, spec, subspec, request_id)
          ELSE ResolveInPlace(c1, c1.working_set[spec],
                              FirstCost(c1.working_set[subspec].result))
        Requested(c0) ==
          IF PageOf(subspec) = PageOf(spec)
          THEN Visited(VisitSpecInternal(c0, subspec))
          ELSE AddRequestMappingExternal(c0, spec, subspec, request_id)
    IN BatchLoop(Requested(Emit(c, <<"request", spec, subspec, request_id>>)),
                 spec, Tail(batch))

\* BlockSearch::visit_spec_internal
VisitSpecInternal(c, spec) ==
    LET Visit(c1) ==
          IF spec \notin c1.visited_in_stage
          THEN VisitNextRequestBatch(
                  [c1 EXCEPT !.visited_in_stage = @ \cup {spec}], spec)
          ELSE c1
    IN Visit(GetTaskInternal(
          DebugAssert(c, WorkingSetKeys(c) = {} \/ SpecInWorkingSet(c, spec)), spec))

\* BlockSearch::visit_next_request_batch
VisitNextRequestBatch(c, spec) ==
    IF c.panic # "" THEN c
    ELSE IF spec \in c.borrowed THEN Panic(c, "already borrowed: BorrowMutError")
    ELSE IF c.working_set[spec].state # "Running" THEN c
    ELSE LET Release(c2) ==
               Emit([c2 EXCEPT !.borrowed = @ \ {spec}], <<"batch_end", spec>>)
             Collected(nb) ==
               IF ~nb.some THEN Emit(c, <<"next", spec, FALSE>>)
               ELSE Release(BatchLoop(
                      Emit(Emit([c EXCEPT !.working_set[spec] = nb.task,
                                          !.borrowed = @ \cup {spec}],
                                <<"next", spec, TRUE>>),
                           <<"batch", spec, nb.task.request_batches_returned - 1,
                             nb.batch>>),
                      spec, nb.batch))
         IN Collected(NextRequestBatch(c.working_set[spec]))

\* The loop of visit_next_request_batch over the collected batch.
BatchLoop(c, spec, batch) ==
    IF batch = <<>> \/ c.panic # "" THEN c
    ELSE
    LET subspec == batch[1][1]
        request_id == batch[1][2]
        Completed(c3, rr) ==
          IF rr.panic # "" THEN Panic(c3, rr.panic)
          ELSE IF rr.task.state = "Complete"
          THEN Emit(CountCompletion(
                   [c3 EXCEPT !.working_set[spec] = rr.task,
                              !.outbox = Append(@, <<spec, rr.task.result>>)]),
                   <<"outbox", spec>>)
          ELSE [c3 EXCEPT !.working_set[spec] = rr.task]
        ResolveInPlace(c1, task, cost) ==
          Completed(Emit(DebugAssert(c1, ~SlotAlreadyResolved(task, request_id, cost)),
                         <<"resolve", spec, request_id, cost, "inplace">>),
                    ResolveRequest(task, request_id, cost))
        Visited(c1) ==
          IF c1.panic # "" THEN c1
          ELSE IF subspec \in c1.borrowed
          THEN Panic(c1, "already mutably borrowed: BorrowError")
          ELSE IF c1.working_set[subspec].state = "Running"
          THEN AddRequestMappingInternal(c1, spec, subspec, request_id)
          ELSE ResolveInPlace(c1, c1.working_set[spec],
                              FirstCost(c1.working_set[subspec].result))
        Requested(c0) ==
          IF PageOf(subspec) = PageOf(spec)
          THEN Visited(VisitSpecInternal(c0, subspec))
          ELSE AddRequestMappingExternal(c0, spec, subspec, request_id)
    IN BatchLoop(Requested(Emit(c, <<"request", spec, subspec, request_id>>)),
                 spec, Tail(batch))

\* Mutant of InnerResolveRequest: the recipients are read but their mapping
\* is left in the map.
InnerResolveRequestKeepsMapping(c, primary, subspec, results) ==
    LET rs == IF primary = "cur" THEN c.cur[subspec]
              ELSE c.working_block_requests[subspec]
    IN  IF rs = <<>> \/ c.panic # "" THEN c
        ELSE ResolveLoop(c, rs, FirstCost(results))

\* BlockSearch::inner_resolve_request.  primary names the map the requests
\* are taken from: "cur" (the sub-block that just returned) or "wbr"
\* (working_block_requests); cascaded completions go through "wbr".
InnerResolveRequest(c, primary, subspec, results) ==
    LET rs == IF primary = "cur" THEN c.cur[subspec]
              ELSE c.working_block_requests[subspec]
    IN  IF rs = <<>> \/ c.panic # "" THEN c
        ELSE LET c1 == IF primary = "cur" THEN [c EXCEPT !.cur[subspec] = <<>>]
                       ELSE [c EXCEPT !.working_block_requests[subspec] = <<>>]
             IN ResolveLoop(c1, rs, FirstCost(results))

\* Mutant of ResolveLoop: a requester completed by the resolution is counted
\* but its own waiters are not resolved.
ResolveLoopWithoutCascade(c, rs, cost) ==
    IF rs = <<>> \/ c.panic # "" THEN c
    ELSE
    LET wb_spec == rs[1][1]
        request_id == rs[1][2]
        requester == c.working_set[wb_spec]
        Completed(c1, rr) ==
          IF rr.panic # "" THEN Panic(c1, rr.panic)
          ELSE IF rr.task.state = "Complete"
          THEN CountCompletion([c1 EXCEPT !.working_set[wb_spec] = rr.task])
          ELSE [c1 EXCEPT !.working_set[wb_spec] = rr.task]
    IN ResolveLoop(
         IF wb_spec \in c.borrowed THEN Panic(c, "already borrowed: BorrowMutError")
         ELSE IF requester.state # "Running" THEN c
         ELSE Completed(
                Emit(DebugAssert(c, ~SlotAlreadyResolved(requester, request_id, cost)),
                     <<"resolve", wb_spec, request_id, cost, "routed">>),
                ResolveRequest(requester, request_id, cost)),
         Tail(rs), cost)

\* The loop of inner_resolve_request over the recipients.
ResolveLoop(c, rs, cost) ==
    IF rs = <<>> \/ c.panic # "" THEN c
    ELSE
    LET wb_spec == rs[1][1]
        request_id == rs[1][2]
        requester == c.working_set[wb_spec]
        Completed(c1, rr) ==
          IF rr.panic # "" THEN Panic(c1, rr.panic)
          ELSE IF rr.task.state = "Complete"
          THEN InnerResolveRequest(
                  CountCompletion([c1 EXCEPT !.working_set[wb_spec] = rr.task]),
                  "wbr", wb_spec, rr.task.result)
          ELSE [c1 EXCEPT !.working_set[wb_spec] = rr.task]
    IN ResolveLoop(
         IF wb_spec \in c.borrowed THEN Panic(c, "already borrowed: BorrowMutError")
         ELSE IF requester.state # "Running" THEN c
         ELSE Completed(
                Emit(DebugAssert(c, ~SlotAlreadyResolved(requester, request_id, cost)),
                     <<"resolve", wb_spec, request_id, cost, "routed">>),
                ResolveRequest(requester, request_id, cost)),
         Tail(rs), cost)

\* Every order a HashMap may iterate the set S in.
Perms(S) == {p \in [1 .. Cardinality(S) -> S] : IsInjective(p)}

\* The state of BlockSearch::synthesize on entry (lines 208-216).
NewFrame(goals, search, prefetch_after) ==
    [goals |-> goals, search |-> search, prefetch_after |-> prefetch_after,
     working_set |-> [s \in Specs |-> Absent],
     working_set_running |-> 0,
     working_block_requests |-> EmptyMap,
     subblock_requests |-> <<>>,
     outbox |-> <<>>,
     visited_in_stage |-> {},
     iter |-> <<>>, cur |-> EmptyMap, cur_goals |-> <<>>,
     results |-> <<>>,
     pc |-> "wave",
     borrowed |-> {}, panic |-> "", dbg |-> FALSE, ev |-> <<>>]

RECURSIVE SeedLoop(_, _)
SeedLoop(c, goals) ==
    IF goals = <<>> \/ c.panic # "" THEN c
    ELSE SeedLoop(VisitSpecInternal(c, goals[1]), Tail(goals))

\* synthesize up to the wave loop: the block is built and every goal visited.
Seed(goals, search, prefetch_after) ==
    LET c0 == Emit(NewFrame(goals, search, prefetch_after),
                   <<"synthesize", goals, prefetch_after>>)
    IN SeedLoop(DebugAssert(c0, IsInjective(goals)), goals)

\* Mutant of DrainLoop: the waiters are resolved with no cost.
RECURSIVE DrainLoopWithoutCost(_, _)
DrainLoopWithoutCost(c, outbox) ==
    IF outbox = <<>> \/ c.panic # "" THEN c
    ELSE DrainLoopWithoutCost(
           InnerResolveRequest(Emit(c, <<"drain", outbox[1][1]>>),
                               "wbr", outbox[1][1], <<>>),
           Tail(outbox))

RECURSIVE DrainLoop(_, _)
DrainLoop(c, outbox) ==
    IF outbox = <<>> \/ c.panic # "" THEN c
    ELSE DrainLoop(InnerResolveRequest(Emit(c, <<"drain", outbox[1][1]>>),
                                       "wbr", outbox[1][1], outbox[1][2]),
                   Tail(outbox))

\* The top of a wave (lines 222-229): the outbox is drained and the
\* accumulated sub-blocks are taken out of the block.
WaveTopStep(c) ==
    LET Taken(c1) ==
          [c1 EXCEPT !.iter = c1.subblock_requests,
                     !.subblock_requests = <<>>,
                     !.pc = IF c1.subblock_requests = <<>> THEN "quiesce" ELSE "subblocks"]
    IN Taken(DrainLoop([c EXCEPT !.outbox = <<>>], c.outbox))

RECURSIVE ExternalLoop(_, _, _)
ExternalLoop(c, subblock_goals, subblock_results) ==
    IF subblock_goals = <<>> \/ subblock_results = <<>> \/ c.panic # "" THEN c
    ELSE ExternalLoop(
            InnerResolveRequest(c, "cur", subblock_goals[1], subblock_results[1]),
            Tail(subblock_goals), Tail(subblock_results))

\* Lines 245-247 after a recursive synthesize returned subblock_results.
ReturnStep(c, subblock_results) ==
    LET Resolved(c1) ==
          [c1 EXCEPT !.cur = EmptyMap, !.cur_goals = <<>>,
                     !.pc = IF c1.iter = <<>> THEN "quiesce" ELSE "subblocks"]
    IN Resolved(ExternalLoop(c, c.cur_goals, subblock_results))

RECURSIVE SweepLoop(_, _)
SweepLoop(c, ws_vec) ==
    IF ws_vec = <<>> \/ c.panic # "" THEN c
    ELSE SweepLoop(VisitNextRequestBatch(c, ws_vec[1]), Tail(ws_vec))

\* The re-sweep (lines 262-271) over the Running tasks in the order ws_vec.
SweepStep(c, ws_vec) ==
    LET c1 == SweepLoop(Emit([c EXCEPT !.visited_in_stage = {}], <<"sweep", ws_vec>>),
                        ws_vec)
    IN [c1 EXCEPT !.pc = "wave"]

\* The quiescence test (lines 250-260).
RunningCountMatches(c) == c.working_set_running = Cardinality(RunningKeys(c))

SealTaskWithoutPut(c, spec) ==
    IF c.working_set[spec].state = "Absent"
    THEN Panic(c, "called Option::unwrap() on a None value")
    ELSE IF c.working_set[spec].state # "Complete"
    THEN Panic(c, "Expected goal to be complete.")
    ELSE [c EXCEPT !.working_set[spec] = Absent]

\* Mutant of SealTask: the result is put whether or not it came from the database.
SealTaskPutsAlways(c, spec) ==
    LET task == c.working_set[spec] IN
    IF task.state = "Absent"
    THEN Panic(c, "called Option::unwrap() on a None value")
    ELSE IF task.state # "Complete" THEN Panic(c, "Expected goal to be complete.")
    ELSE Emit([c EXCEPT !.working_set[spec] = Absent], <<"put", spec, task.result>>)

\* One task read out at the seal: put unless it came from the database.
SealTask(c, spec) ==
    LET task == c.working_set[spec] IN
    IF task.state = "Absent"
    THEN Panic(c, "called Option::unwrap() on a None value")
    ELSE IF task.state # "Complete" THEN Panic(c, "Expected goal to be complete.")
    ELSE LET c1 == [c EXCEPT !.working_set[spec] = Absent]
         IN IF task.from_db THEN c1 ELSE Emit(c1, <<"put", spec, task.result>>)

\* Mutant of SealGoals: the goals' results are returned without being put.
RECURSIVE SealGoalsUnstored(_, _)
SealGoalsUnstored(c, goals) ==
    IF goals = <<>> \/ c.panic # "" THEN c
    ELSE LET task == c.working_set[goals[1]]
         IN IF task.state # "Complete"
            THEN SealGoalsUnstored(SealTask(c, goals[1]), Tail(goals))
            ELSE SealGoalsUnstored(
                    [c EXCEPT !.working_set[goals[1]] = Absent,
                              !.results = Append(@, task.result)],
                    Tail(goals))

RECURSIVE SealGoals(_, _)
SealGoals(c, goals) ==
    IF goals = <<>> \/ c.panic # "" THEN c
    ELSE LET task == c.working_set[goals[1]]
             Pushed(c1) ==
                IF c1.panic = "" THEN [c1 EXCEPT !.results = Append(@, task.result)]
                ELSE c1
         IN SealGoals(Pushed(SealTask(c, goals[1])), Tail(goals))

RECURSIVE SealRest(_, _)
SealRest(c, rest) ==
    IF rest = {} \/ c.panic # "" THEN c
    ELSE LET spec == CHOOSE x \in rest : \A y \in rest : x <= y
         IN SealRest(SealTask(c, spec), rest \ {spec})

\* The seal (lines 273-311).  The working set is drained in ascending Spec
\* order: its keys are distinct, so the order of the puts of one seal does
\* not show in the database.
SealStep(c) ==
    LET Rest(c1) == SealRest(c1, WorkingSetKeys(c1))
        Returned(c2) == [c2 EXCEPT !.pc = "return"]
    IN Returned(Rest(SealGoals(
          DebugAssert(DebugAssert(c, Keys(c.working_block_requests) = {}),
                      c.subblock_requests = <<>>),
          c.goals)))

\* FilesDatabase::put for every put event of a step.
RECURSIVE ApplyPuts(_, _)
ApplyPuts(d, ev) ==
    IF ev = <<>> THEN d
    ELSE ApplyPuts(IF ev[1][1] = "put"
                   THEN [d EXCEPT ![ev[1][2]] = [present |-> TRUE, value |-> ev[1][3]]]
                   ELSE d,
                   Tail(ev))

(***************************************************************************)
(* top_down_many and the workers' steps.                                   *)
(***************************************************************************)
MaxGoals == 2
MaxJobs == 2

evars == <<world, db, call, workers, log, tick>>
vars == <<world, db, call, workers, log, tick,
          reducer, offered, inserts, lastInsert, tieWhenFull, allDistinct, finalized,
          spec_task, started, lastCall, ncalls>>

EmptyDb == [s \in Specs |-> NotStored]

IdleCall(goals, top_k, jobs) ==
    [status |-> "idle", goals |-> goals, top_k |-> top_k, jobs |-> jobs,
     canonical_goals |-> <<>>, groups |-> <<>>, gi |-> 0,
     combined_results |-> <<>>, panic |-> "", dbg |-> FALSE]

Tagged(w, ev) == [i \in 1 .. Len(ev) |-> <<w>> \o ev[i]]

\* Mutant of IndicesInPage: only the first goal of the page is taken.
RECURSIVE IndicesInPageFirstOnly(_, _, _)
IndicesInPageFirstOnly(canonical_goals, page, i) ==
    IF i > Len(canonical_goals) THEN <<>>
    ELSE IF PageOf(canonical_goals[i]) = page THEN <<i>>
    ELSE IndicesInPageFirstOnly(canonical_goals, page, i + 1)

\* The goal indices (1-based here) of one page, in goal order.
RECURSIVE IndicesInPage(_, _, _)
IndicesInPage(canonical_goals, page, i) ==
    IF i > Len(canonical_goals) THEN <<>>
    ELSE (IF PageOf(canonical_goals[i]) = page THEN <<i>> ELSE <<>>)
         \o IndicesInPage(canonical_goals, page, i + 1)

\* The assert! on the database's max_k: map_or(true, |k| k >= top_k).
MaxKAssertSkipped(max_k, top_k) == TRUE

MaxKAssert(max_k, top_k) == max_k = None \/ max_k[1] >= top_k

\* top_down_many up to its loop over the page groups (lines 113-144).
\* page_order is the order grouped_canonical_goals.values() yields.
TopDownMany ==
    /\ call.status = "idle"
    /\ IF ~MaxKAssert(world.max_k, call.top_k)
       THEN /\ call' = [call EXCEPT !.status = "panicked",
                           !.panic = "assertion failed: db.max_k().map_or(true, |k| k >= top_k)"]
            /\ UNCHANGED log
       ELSE IF call.top_k > 1
       THEN /\ call' = [call EXCEPT !.status = "panicked",
                           !.panic = "not implemented: Search for top_k > 1 not yet implemented."]
            /\ UNCHANGED log
       ELSE LET canonical_goals ==
                  [i \in 1 .. Len(call.goals) |-> Canonicalize(call.goals[i])]
                pages == {PageOf(canonical_goals[i]) : i \in 1 .. Len(canonical_goals)}
            IN \E page_order \in Perms(pages) :
                 /\ call' = [call EXCEPT
                      !.status = IF pages = {} THEN "done" ELSE "running",
                      !.canonical_goals = canonical_goals,
                      !.groups = [j \in 1 .. Len(page_order) |->
                                    IndicesInPage(canonical_goals, page_order[j], 1)],
                      !.gi = 1,
                      !.combined_results = [i \in 1 .. Len(canonical_goals) |-> <<>>]]
                 /\ log' = Append(log, <<0, "top_down_many", canonical_goals>>)
    /\ tick' = ~tick
    /\ UNCHANGED <<world, db, workers, rvars, tvars>>

NewWorker(goals, search) ==
    [status |-> "ready", goals |-> goals, search |-> search, stack |-> <<>>,
     result |-> <<>>, dbg |-> FALSE, log |-> <<>>]

\* Lines 145-183 up to the synthesize calls: one worker on the page group's
\* goals when thread_count = 1, else thread_count workers on all the goals.
StartGroup ==
    /\ call.status = "running"
    /\ workers = <<>>
    /\ call.gi <= Len(call.groups)
    /\ LET page_group == call.groups[call.gi]
           goal_group == [j \in 1 .. Len(page_group) |-> call.canonical_goals[page_group[j]]]
           thread_count == call.jobs
       IN workers' =
            IF thread_count = 1
            THEN <<NewWorker(goal_group,
                     [top_k |-> call.top_k, thread_idx |-> 0, thread_count |-> 1])>>
            ELSE [i \in 1 .. thread_count |->
                    NewWorker(call.canonical_goals,
                      [top_k |-> call.top_k, thread_idx |-> i - 1,
                       thread_count |-> thread_count])]
    /\ tick' = ~tick
    /\ UNCHANGED <<world, db, call, log, rvars, tvars>>

TopFrame(w) == workers[w].stack[Len(workers[w].stack)]

\* The worker's stack with its top frame replaced by c, and the step's
\* events moved to the log.
Commit(w, c) ==
    workers' = [workers EXCEPT
       ![w].stack[Len(workers[w].stack)] = [c EXCEPT !.ev = <<>>],
       ![w].status = IF c.panic # "" THEN "panicked" ELSE @,
       ![w].dbg = @ \/ c.dbg,
       ![w].log = @ \o c.ev]

\* The top-level BlockSearch::synthesize call of a worker, up to the wave loop.
Synthesize(w) ==
    /\ workers[w].status = "ready"
    /\ LET Entered(c) ==
             workers' = [workers EXCEPT
                ![w].stack = <<[c EXCEPT !.ev = <<>>]>>,
                ![w].status = IF c.panic # "" THEN "panicked" ELSE "running",
                ![w].dbg = @ \/ c.dbg,
                ![w].log = @ \o c.ev]
       IN Entered(Seed(workers[w].goals, workers[w].search, None))
    /\ tick' = ~tick
    /\ UNCHANGED <<world, db, call, log, rvars, tvars>>

WaveTop(w) ==
    /\ workers[w].status = "running"
    /\ TopFrame(w).pc = "wave"
    /\ Commit(w, WaveTopStep(TopFrame(w)))
    /\ tick' = ~tick
    /\ UNCHANGED <<world, db, call, log, rvars, tvars>>

\* Mutant of CallSubblock: the prefetch for a key of the next sub-block is
\* issued before the call instead of being passed down as the callee's hint.
CallSubblockPrefetchesNext(w) ==
    /\ workers[w].status = "running"
    /\ TopFrame(w).pc = "subblocks"
    /\ LET c == TopFrame(w)
           subblock == c.iter[1]
           rest == Tail(c.iter)
           n == Len(workers[w].stack)
           Called(parent, child, pev) ==
             workers' = [workers EXCEPT
                ![w].stack = Append([@ EXCEPT ![n] = parent],
                                    [child EXCEPT !.ev = <<>>]),
                ![w].status = IF child.panic # "" THEN "panicked" ELSE @,
                ![w].dbg = @ \/ child.dbg,
                ![w].log = @ \o pev \o child.ev]
       IN \E goals_order \in Perms(Keys(subblock)) :
          \E hint \in (IF rest # <<>> THEN {Some(k) : k \in Keys(rest[1])}
                       ELSE {c.prefetch_after}) :
            Called([c EXCEPT !.iter = rest, !.cur = subblock,
                             !.cur_goals = goals_order, !.pc = "awaiting"],
                   Seed(goals_order, c.search, None),
                   IF hint = None THEN <<>> ELSE <<<<"prefetch", hint[1]>>>>)
    /\ tick' = ~tick
    /\ UNCHANGED <<world, db, call, log, rvars, tvars>>

\* Lines 230-244: the next sub-block is taken, the prefetch hint chosen and
\* synthesize called on the sub-block's keys (in the order goals_order).
CallSubblock(w) ==
    /\ workers[w].status = "running"
    /\ TopFrame(w).pc = "subblocks"
    /\ LET c == TopFrame(w)
           subblock == c.iter[1]
           rest == Tail(c.iter)
           n == Len(workers[w].stack)
           pev == IF rest = <<>> /\ c.prefetch_after # None
                  THEN <<<<"prefetch", c.prefetch_after[1]>>>> ELSE <<>>
           Called(parent, child) ==
             workers' = [workers EXCEPT
                ![w].stack = Append([@ EXCEPT ![n] = parent],
                                    [child EXCEPT !.ev = <<>>]),
                ![w].status = IF child.panic # "" THEN "panicked" ELSE @,
                ![w].dbg = @ \/ child.dbg,
                ![w].log = @ \o pev \o child.ev]
       IN \E goals_order \in Perms(Keys(subblock)) :
          \E prefetch_to_push_down \in
                (IF rest # <<>> THEN {Some(k) : k \in Keys(rest[1])} ELSE {None}) :
            Called([c EXCEPT !.iter = rest, !.cur = subblock,
                             !.cur_goals = goals_order, !.pc = "awaiting"],
                   Seed(goals_order, c.search, prefetch_to_push_down))
    /\ tick' = ~tick
    /\ UNCHANGED <<world, db, call, log, rvars, tvars>>

\* A recursive synthesize returns: its results resolve the requests of the
\* sub-block in the calling frame.
ReturnSubblock(w) ==
    /\ workers[w].status = "running"
    /\ Len(workers[w].stack) >= 2
    /\ TopFrame(w).pc = "return"
    /\ LET n == Len(workers[w].stack)
           Returned(c) ==
             workers' = [workers EXCEPT
                ![w].stack = Append(SubSeq(@, 1, n - 2), [c EXCEPT !.ev = <<>>]),
                ![w].status = IF c.panic # "" THEN "panicked" ELSE @,
                ![w].dbg = @ \/ c.dbg,
                ![w].log = @ \o Append(c.ev, <<"returned", n - 1>>)]
       IN Returned(ReturnStep(workers[w].stack[n - 1], TopFrame(w).results))
    /\ tick' = ~tick
    /\ UNCHANGED <<world, db, call, log, rvars, tvars>>

\* The wave loop's exit test succeeds.
QuiesceExit(w) ==
    /\ workers[w].status = "running"
    /\ TopFrame(w).pc = "quiesce"
    /\ TopFrame(w).working_set_running = 0
    /\ Commit(w, [DebugAssert(TopFrame(w), RunningCountMatches(TopFrame(w)))
                    EXCEPT !.pc = "seal"])
    /\ tick' = ~tick
    /\ UNCHANGED <<world, db, call, log, rvars, tvars>>

\* The wave loop goes on: every Running task is swept, in the order the
\* working set iterates.
Sweep(w) ==
    /\ workers[w].status = "running"
    /\ TopFrame(w).pc = "quiesce"
    /\ TopFrame(w).working_set_running # 0
    /\ \E ws_vec \in Perms(RunningKeys(TopFrame(w))) :
         Commit(w, SweepStep(DebugAssert(TopFrame(w), RunningCountMatches(TopFrame(w))),
                             ws_vec))
    /\ tick' = ~tick
    /\ UNCHANGED <<world, db, call, log, rvars, tvars>>

\* The seal; the top-level frame's results are the worker's.
Seal(w) ==
    /\ workers[w].status = "running"
    /\ TopFrame(w).pc = "seal"
    /\ LET n == Len(workers[w].stack)
           Sealed(c) ==
             /\ workers' = [workers EXCEPT
                   ![w].stack[n] = [c EXCEPT !.ev = <<>>],
                   ![w].status = IF c.panic # "" THEN "panicked"
                                 ELSE IF n = 1 THEN "done" ELSE @,
                   ![w].result = IF n = 1 /\ c.panic = "" THEN c.results ELSE @,
                   ![w].dbg = @ \/ c.dbg,
                   ![w].log = @ \o c.ev]
             /\ db' = ApplyPuts(db, c.ev)
       IN Sealed(SealStep(TopFrame(w)))
    /\ tick' = ~tick
    /\ UNCHANGED <<world, call, log, rvars, tvars>>

\* result.into_iter().zip(page_group): combined_results[*i] = r.
RECURSIVE ZipInto(_, _, _)
ZipInto(combined, result, page_group) ==
    IF result = <<>> \/ page_group = <<>> THEN combined
    ELSE ZipInto([combined EXCEPT ![page_group[1]] = result[1]],
                 Tail(result), Tail(page_group))

\* The history of the joined workers, worker by worker.
RECURSIVE JoinLogs(_, _)
JoinLogs(l, w) ==
    IF w > Len(workers) THEN l
    ELSE JoinLogs(l \o Tagged(w, workers[w].log), w + 1)

\* Lines 180-190: the workers are joined, the result of the last one taken
\* (collect().pop()) and merged; a worker's panic is the call's.
FinishGroup ==
    /\ call.status = "running"
    /\ workers # <<>>
    /\ \A w \in 1 .. Len(workers) : workers[w].status \in {"done", "panicked"}
    /\ IF \E w \in 1 .. Len(workers) : workers[w].status = "panicked"
       THEN call' = [call EXCEPT !.status = "panicked", !.panic = "worker panicked",
                                 !.dbg = @ \/ \E w \in 1 .. Len(workers) : workers[w].dbg]
       ELSE call' = [call EXCEPT
               !.combined_results =
                  ZipInto(@, workers[Len(workers)].result, call.groups[call.gi]),
               !.gi = @ + 1,
               !.status = IF call.gi = Len(call.groups) THEN "done" ELSE @,
               !.dbg = @ \/ \E w \in 1 .. Len(workers) : workers[w].dbg]
    /\ workers' = <<>>
    /\ log' = JoinLogs(Append(log, <<0, "joined", call.gi>>), 1)
    /\ tick' = ~tick
    /\ UNCHANGED <<world, db, rvars, tvars>>

Next ==
    \/ TopDownMany
    \/ StartGroup
    \/ \E w \in 1 .. Len(workers) : Synthesize(w)
    \/ \E w \in 1 .. Len(workers) : WaveTop(w)
    \/ \E w \in 1 .. Len(workers) : CallSubblock(w)
    \/ \E w \in 1 .. Len(workers) : ReturnSubblock(w)
    \/ \E w \in 1 .. Len(workers) : QuiesceExit(w)
    \/ \E w \in 1 .. Len(workers) : Sweep(w)
    \/ \E w \in 1 .. Len(workers) : Seal(w)
    \/ FinishGroup

ReducerIdle ==
    /\ reducer = ImplReducerNew(1, <<>>)
    /\ offered = {}
    /\ inserts = 0
    /\ lastInsert = NoInsert
    /\ tieWhenFull = FALSE
    /\ allDistinct = TRUE
    /\ finalized = NotFinalized

\* top_down (lines 86-100) on an empty database: one goal, top_k = 1, one job.
Init ==
    /\ \E actions \in ActionTables(NumSpecs), page \in PageMaps :
         world = [actions |-> actions, page |-> page, max_k |-> Some(1)]
    /\ db = EmptyDb
    /\ call = IdleCall(<<<<NumSpecs - 1, 0>>>>, 1, 1)
    /\ workers = <<>>
    /\ log = <<>>
    /\ tick = FALSE
    /\ ReducerIdle
    /\ TaskIdle

Spec == Init /\ [][Next]_vars

\* Action tables in which only the first action of a Spec can apply.
SingleActionTables ==
    {t \in ActionTables(NumSpecs) :
        \A s \in 1 .. NumSpecs : \A a \in 2 .. NumActions : t[s][a] = FailOutcome}

\* The guards of the disjuncts of Next, in their order: Next is enabled
\* exactly when one of them holds.
CanStep ==
    \/ call.status = "idle"
    \/ call.status = "running" /\ workers = <<>> /\ call.gi <= Len(call.groups)
    \/ \E w \in 1 .. Len(workers) : workers[w].status = "ready"
    \/ \E w \in 1 .. Len(workers) :
         workers[w].status = "running" /\ TopFrame(w).pc = "wave"
    \/ \E w \in 1 .. Len(workers) :
         workers[w].status = "running" /\ TopFrame(w).pc = "subblocks"
    \/ \E w \in 1 .. Len(workers) :
         /\ workers[w].status = "running"
         /\ Len(workers[w].stack) >= 2
         /\ TopFrame(w).pc = "return"
    \/ \E w \in 1 .. Len(workers) :
         workers[w].status = "running" /\ TopFrame(w).pc = "quiesce"
    \/ \E w \in 1 .. Len(workers) :
         workers[w].status = "running" /\ TopFrame(w).pc = "seal"
    \/ /\ call.status = "running"
       /\ workers # <<>>
       /\ \A w \in 1 .. Len(workers) : workers[w].status \in {"done", "panicked"}

\* What a step of Next does to tick.  Every step of Next is a Tick step and
\* Tick is enabled exactly when Next is, so weak fairness of Tick is weak
\* fairness of Next.
Tick == CanStep /\ tick' = ~tick

\* top_down as a running program: the thread that called it keeps taking
\* steps for as long as one is enabled.
LiveSpec == Init /\ [][Next]_vars /\ WF_tick(Tick)

GoalLists == SeqsUpTo(RawGoals, MaxGoals)

\* Option<usize>: what FilesDatabase::max_k may return.
MaxMaxK == 1
MaxKs == {None} \cup {Some(k) : k \in 0 .. MaxMaxK}

\* top_down_many with one job on an empty database: any list of goals,
\* canonical or not, any top_k >= 1 and any max_k.
ManyInit ==
    /\ \E actions \in SingleActionTables, page \in PageMaps, max_k \in MaxKs :
         world = [actions |-> actions, page |-> page, max_k |-> max_k]
    /\ db = EmptyDb
    /\ \E goals \in GoalLists, top_k \in 1 .. MaxTopK : call = IdleCall(goals, top_k, 1)
    /\ workers = <<>>
    /\ log = <<>>
    /\ tick = FALSE
    /\ ReducerIdle
    /\ TaskIdle

ManySpec == ManyInit /\ [][Next]_vars

\* top_down_many on canonical goals with top_k = 1, for every number of jobs.
ParallelInit ==
    /\ \E actions \in SingleActionTables, page \in PageMaps :
         world = [actions |-> actions, page |-> page, max_k |-> None]
    /\ db = EmptyDb
    /\ \E goals \in SeqsUpTo(Specs \X {0}, MaxGoals), jobs \in 1 .. MaxJobs :
         call = IdleCall(goals, 1, jobs)
    /\ workers = <<>>
    /\ log = <<>>
    /\ tick = FALSE
    /\ ReducerIdle
    /\ TaskIdle

ParallelSpec == ParallelInit /\ [][Next]_vars

EngineIdle ==
    /\ world = [actions |-> <<>>, page |-> [s \in Specs |-> 0], max_k |-> None]
    /\ db = EmptyDb
    /\ call = IdleCall(<<>>, 0, 0)
    /\ workers = <<>>
    /\ log = <<>>
    /\ tick = FALSE

RNext ==
    \/ RInsert /\ UNCHANGED <<evars, tvars>>
    \/ RFinalize /\ UNCHANGED <<evars, tvars>>

ReducerInit ==
    /\ RInit
    /\ EngineIdle
    /\ TaskIdle

ReducerSpec == ReducerInit /\ [][RNext]_vars

\* Worlds for the SpecTask on its own: the goal is the highest Spec; what the
\* actions of the lower Specs are does not matter to the task.
TaskTables ==
    {t \in ActionTables(NumSpecs) :
        \A s \in 1 .. NumSpecs - 1 : \A a \in 1 .. NumActions : t[s][a] = FailOutcome}

\* The (thread_idx, thread_count) pairs of the workers of top_down_many.
Rotations == {<<i, n>> : i \in 0 .. MaxJobs - 1, n \in 1 .. MaxJobs} \ {<<1, 1>>}

TaskInit ==
    /\ \E actions \in TaskTables :
         world = [actions |-> actions, page |-> [s \in Specs |-> 0], max_k |-> None]
    /\ db = EmptyDb
    /\ call = IdleCall(<<>>, 0, 0)
    /\ workers = <<>>
    /\ log = <<>>
    /\ tick = FALSE
    /\ ReducerIdle
    /\ \E top_k \in 1 .. MaxTopK, rot \in Rotations :
         LET t == SpecTaskStart(NumSpecs - 1, None, top_k, rot[1], rot[2]) IN
         /\ spec_task = t
         /\ started = [goal |-> NumSpecs - 1, top_k |-> top_k, thread_idx |-> rot[1],
                       thread_count |-> rot[2], task |-> t]
    /\ lastCall = NoCall
    /\ ncalls = 0

TaskNext ==
    \/ TaskNextRequestBatch /\ UNCHANGED <<evars, rvars>>
    \/ TaskResolveRequest /\ UNCHANGED <<evars, rvars>>

TaskSpec == TaskInit /\ [][TaskNext]_vars

\* Worlds for the race of the workers: both actions of Spec 0 apply (two
\* Impls of equal cost) and only the first action of the goal can have more
\* than one sub-Spec; this keeps the interleavings enumerable.
RaceTables ==
    {t \in ActionTables(NumSpecs) :
        /\ \A a \in 1 .. NumActions : t[1][a] # FailOutcome
        /\ \A s \in 1 .. NumSpecs : \A a \in 1 .. NumActions :
             (s < NumSpecs \/ a > 1) => Len(t[s][a].subspecs) <= 1}

\* top_down_many on an empty database with MaxJobs jobs: every worker gets
\* the goal and its own thread_idx.
RaceInit ==
    /\ \E actions \in RaceTables, page \in PageMaps :
         world = [actions |-> actions, page |-> page, max_k |-> None]
    /\ db = EmptyDb
    /\ call = IdleCall(<<<<NumSpecs - 1, 0>>>>, 1, MaxJobs)
    /\ workers = <<>>
    /\ log = <<>>
    /\ tick = FALSE
    /\ ReducerIdle
    /\ TaskIdle

RaceSpec == RaceInit /\ [][Next]_vars

(***************************************************************************)
(* Properties of top_down and top_down_many.  The reference below is the   *)
(* optimum by definition: it never looks at the search.                     *)
(***************************************************************************)
RECURSIVE OptCost(_)

\* The cost of taking action a at Spec s with optimal children: None when
\* the action does not apply or a sub-Spec has no implementation.
ActionOptCost(s, a) ==
    LET imp == ApplyAction(s, a)
        child == [i \in 1 .. Len(imp.subspecs) |-> OptCost(imp.subspecs[i])]
    IN  IF imp.kind = "fail" THEN None
        ELSE IF \E i \in 1 .. Len(child) : child[i] = None THEN None
        ELSE Some(FromChildCosts(imp, [i \in 1 .. Len(child) |-> child[i][1]]))

\* The <<cost, action_idx>> pairs of the actions that can implement s.
OptCandidates(s) ==
    LET cost == [a \in 0 .. NumActions - 1 |-> ActionOptCost(s, a)]
    IN {<<cost[a][1], a>> : a \in {b \in 0 .. NumActions - 1 : cost[b] # None}}

OptCost(s) ==
    LET cands == OptCandidates(s)
    IN IF cands = {} THEN None ELSE Some(MinPair(cands)[1])

\* The vector top_down is to return for s: at most one <<action_idx, cost>>.
OptResult(s) ==
    LET cands == OptCandidates(s)
    IN IF cands = {} THEN <<>> ELSE <<<<MinPair(cands)[2], MinPair(cands)[1]>>>>

\* The Specs of the optimal implementation tree of s.
RECURSIVE OptTree(_)
OptTree(s) ==
    LET res == OptResult(s)
    IN  IF res = <<>> THEN {s}
        ELSE LET imp == ApplyAction(s, res[1][1])
             IN {s} \cup UNION {OptTree(imp.subspecs[i]) : i \in 1 .. Len(imp.subspecs)}

TheGoal == Canonicalize(call.goals[1])

\* C1: top_down with top_k = 1 and jobs = 1 on an empty database does not
\* panic, and what it returns is the single <<action_idx, cost>> pair that
\* is minimal under (cost, action_idx) among the actions that apply to the
\* goal and whose sub-Specs all have an implementation, each sub-Spec
\* counted at its own optimal cost; the empty vector iff there is no such
\* action.
C1_TopDownReturnsOptimum ==
    /\ call.status # "panicked"
    /\ call.status = "done" => call.combined_results = <<OptResult(TheGoal)>>

\* The search returned the second action, a partial Impl whose sub-Specs
\* were searched, in preference to an applicable but costlier first one.
C1_Witness ==
    /\ call.status = "done"
    /\ call.combined_results # <<<<>>>>
    /\ call.combined_results[1][1][1] = 1
    /\ ApplyAction(TheGoal, 1).kind = "node"
    /\ ActionOptCost(TheGoal, 0) # None
    /\ ActionOptCost(TheGoal, 0)[1] > call.combined_results[1][1][2]

\* C2: after top_down returns, the goal and every Spec of the goal's
\* optimal implementation tree has an entry in the database.
C2_DependencyClosure ==
    call.status = "done" => \A s \in OptTree(TheGoal) : db[s].present

\* top_down returned for a goal whose optimal tree has Specs of two pages.
C2_Witness ==
    /\ call.status = "done"
    /\ Cardinality(OptTree(TheGoal)) = NumSpecs
    /\ \E s, t \in OptTree(TheGoal) : PageOf(s) # PageOf(t)
    /\ \A s \in OptTree(TheGoal) : db[s].present

\* What top_down_many is to return: for each goal, the optimum of its
\* canonical form.
ExpectedResults ==
    [i \in 1 .. Len(call.goals) |-> OptResult(Canonicalize(call.goals[i]))]

CanonicalGoalsDistinct ==
    IsInjective([i \in 1 .. Len(call.goals) |-> Canonicalize(call.goals[i])])

\* C3: for fixed goals, whatever pages they fall in, top_down_many returns
\* with every number of jobs the result vector it returns with one job:
\* it does not panic and results[i] is the optimum of goals[i].
C3_Original ==
    CanonicalGoalsDistinct =>
        /\ call.status # "panicked"
        /\ call.status = "done" => call.combined_results = ExpectedResults

\* With one job the call on such goals does return that vector.
C3_OneJobBaseline ==
    (CanonicalGoalsDistinct /\ call.jobs = 1) =>
        /\ call.status # "panicked"
        /\ call.status = "done" => call.combined_results = ExpectedResults

\* The call passes the checks on top_k.
CallAccepted ==
    /\ call.top_k <= 1
    /\ world.max_k = None \/ world.max_k[1] >= call.top_k

\* C4: with one job and pairwise-distinct goals, in whatever pages they
\* fall, top_down_many returns one result per goal, results[i] being the
\* result for the canonical form of goals[i].
C4_Original ==
    (call.jobs = 1 /\ IsInjective(call.goals) /\ CallAccepted) =>
        /\ call.status # "panicked"
        /\ call.status = "done" =>
              /\ Len(call.combined_results) = Len(call.goals)
              /\ call.combined_results = ExpectedResults

\* The same for goals whose canonical forms are pairwise distinct.
C4_DistinctCanonicalForms ==
    (call.jobs = 1 /\ CanonicalGoalsDistinct /\ CallAccepted) =>
        /\ call.status # "panicked"
        /\ call.status = "done" =>
              /\ Len(call.combined_results) = Len(call.goals)
              /\ call.combined_results = ExpectedResults

CallRejected ==
    \/ call.top_k > 1
    \/ world.max_k # None /\ call.top_k > world.max_k[1]

\* C5: a call with top_k > 1, or with top_k above the database's max_k,
\* never gets past its panic: no worker exists, no SpecTask was started and
\* no get_with_preference, put or prefetch was issued.
C5_RejectedBeforeAnyWork ==
    CallRejected =>
        /\ call.status \in {"idle", "panicked"}
        /\ workers = <<>>
        /\ log = <<>>
        /\ db = EmptyDb

\* A call with top_k = 1 on a database whose max_k is 0 has panicked.
C5_Witness ==
    /\ call.status = "panicked"
    /\ call.top_k = 1
    /\ world.max_k = Some(0)
    /\ call.goals # <<>>

(***************************************************************************)
(* Properties of the ImplReducer (checked under ReducerSpec).              *)
(***************************************************************************)
RECURSIVE SmallestK(_, _)
SmallestK(S, k) ==
    IF k = 0 \/ S = {} THEN {}
    ELSE LET m == MinPair(S) IN {m} \cup SmallestK(S \ {m}, k - 1)

Min2(a, b) == IF a < b THEN a ELSE b

SameCostOffered == \A x, y \in offered : x[1] = y[1]

PrefIdxOf(a) == {i \in 1 .. Len(reducer.preferences) : reducer.preferences[i] = a}

\* C6: finalize returns exactly the held pairs, ascending by cost and, among
\* pairs of equal cost, ascending by action index.
C6_FinalizeSorted ==
    finalized # NotFinalized =>
      /\ Len(finalized) = Cardinality(reducer.results)
      /\ {<<finalized[i][2], finalized[i][1]>> : i \in 1 .. Len(finalized)} = reducer.results
      /\ \A i, j \in 1 .. Len(finalized) :
           i < j => \/ finalized[i][2] < finalized[j][2]
                    \/ /\ finalized[i][2] = finalized[j][2]
                       /\ finalized[i][1] < finalized[j][1]

C6_Witness ==
    /\ finalized # NotFinalized
    /\ Len(finalized) = 2
    /\ finalized[1][2] = finalized[2][2]
    /\ inserts = 3

\* C7 (as claimed): with distinct action indices and no preferences the reducer
\* holds exactly the min(top_k, n) smallest pairs of the n offered.
C7_Original ==
    (allDistinct /\ reducer.preferences = <<>>) =>
      reducer.results =
        SmallestK(offered, Min2(reducer.top_k, Cardinality(offered)))

\* C7 (amended): the same, provided no pair was offered to a full reducer with
\* top_k > 1 at a cost that a held pair already had (such a pair is dropped
\* even when its action index is lower than a held one's).
C7_SmallestUnlessTie ==
    (allDistinct /\ reducer.preferences = <<>> /\ ~tieWhenFull) =>
      reducer.results =
        SmallestK(offered, Min2(reducer.top_k, Cardinality(offered)))

C7_Witness ==
    /\ allDistinct /\ reducer.preferences = <<>> /\ ~tieWhenFull
    /\ reducer.top_k = 2
    /\ Cardinality(offered) = 3
    /\ lastInsert.fresh /\ lastInsert.cand \in reducer.results
    /\ lastInsert.before # {} /\ ~(lastInsert.before \subseteq reducer.results)

\* C8 (as claimed): with equal-cost candidates, every preference p_i that was
\* offered sits at position i of the finalized vector.
C8_Original ==
    (finalized # NotFinalized /\ SameCostOffered) =>
      \A i \in 1 .. Len(reducer.preferences) :
        (\E x \in offered : x[2] = reducer.preferences[i]) =>
          /\ i <= Len(finalized)
          /\ finalized[i][1] = reducer.preferences[i]

\* C8 (amended): with top_k > 1 and equal-cost candidates, a candidate that is
\* one of the preferences is held right after its insert (when the reducer is
\* full it takes the place of the pair at its preference's position); it need
\* not be at that position afterwards and a later preferred candidate may
\* displace it.
C8_PreferredHeldAfterInsert ==
    (/\ lastInsert.fresh /\ SameCostOffered /\ reducer.top_k > 1
     /\ PrefIdxOf(lastInsert.cand[2]) # {}) =>
      /\ lastInsert.cand \in reducer.results
      /\ (Cardinality(lastInsert.before) = reducer.top_k
           /\ lastInsert.cand \notin lastInsert.before) =>
           \E i \in PrefIdxOf(lastInsert.cand[2]) :
              reducer.results =
                (lastInsert.before \ {BTreeIter(lastInsert.before)[i]})
                   \cup {lastInsert.cand}

C8_Witness ==
    /\ lastInsert.fresh /\ SameCostOffered /\ reducer.top_k = 2
    /\ PrefIdxOf(lastInsert.cand[2]) = {2}
    /\ Cardinality(lastInsert.before) = 2
    /\ lastInsert.cand \notin lastInsert.before
    /\ lastInsert.cand \in reducer.results

\* C9: a full reducer (top_k > 1) offered a candidate whose cost is held
\* replaces held[i] by the candidate exactly when some position i (0-based,
\* i < len(preferences)) holds that cost and preferences[i] is the candidate's
\* action index; otherwise the held set is unchanged.
C9_TieReplacesOnlyPreferred ==
    (/\ lastInsert.fresh /\ reducer.top_k > 1
     /\ Cardinality(lastInsert.before) = reducer.top_k
     /\ \E x \in lastInsert.before : x[1] = lastInsert.cand[1]) =>
      LET held == BTreeIter(lastInsert.before)
          pos == {i \in 0 .. Len(held) - 1 :
                    /\ i < Len(reducer.preferences)
                    /\ held[i + 1][1] = lastInsert.cand[1]
                    /\ reducer.preferences[i + 1] = lastInsert.cand[2]}
      IN  IF pos = {}
          THEN lastInsert.after = lastInsert.before
          ELSE \E i \in pos :
                 lastInsert.after =
                   (lastInsert.before \ {held[i + 1]}) \cup {lastInsert.cand}

C9_Witness ==
    /\ lastInsert.fresh /\ reducer.top_k = 2
    /\ Cardinality(lastInsert.before) = 2
    /\ \E x \in lastInsert.before : x[1] = lastInsert.cand[1]
    /\ \E x \in lastInsert.before : x[1] # lastInsert.cand[1]
    /\ lastInsert.after # lastInsert.before

\* C10: a full reducer (top_k > 1) offered a candidate whose cost no held pair
\* has keeps the top_k smallest of held + candidate: a candidate better than
\* the worst held pair replaces it, a worse one changes nothing.
C10_NoTieKeepsSmallest ==
    (/\ lastInsert.fresh /\ reducer.top_k > 1
     /\ Cardinality(lastInsert.before) = reducer.top_k
     /\ \A x \in lastInsert.before : x[1] # lastInsert.cand[1]) =>
      LET worst == MaxPair(lastInsert.before) IN
      /\ lastInsert.after =
           SmallestK(lastInsert.before \cup {lastInsert.cand}, reducer.top_k)
      /\ PairLess(lastInsert.cand, worst) =>
           lastInsert.after = (lastInsert.before \ {worst}) \cup {lastInsert.cand}
      /\ PairLess(worst, lastInsert.cand) => lastInsert.after = lastInsert.before

C10_Witness ==
    /\ lastInsert.fresh /\ reducer.top_k = 2
    /\ Cardinality(lastInsert.before) = 2
    /\ \A x \in lastInsert.before : x[1] # lastInsert.cand[1]
    /\ PairLess(lastInsert.cand, MaxPair(lastInsert.before))
    /\ PairLess(MinPair(lastInsert.before), lastInsert.cand)
    /\ lastInsert.cand \in lastInsert.after

Swapped(pairs) == [i \in 1 .. Len(pairs) |-> <<pairs[i][2], pairs[i][1]>>]

\* C11: when at most top_k pairs with pairwise-distinct action indices are
\* inserted into a reducer with an empty preference list, finalize returns
\* every inserted pair, ascending by (cost, action_idx).
C11_NoneDroppedUpToTopK ==
    (/\ finalized # NotFinalized
     /\ reducer.preferences = <<>>
     /\ allDistinct
     /\ inserts <= reducer.top_k) =>
      finalized = Swapped(BTreeIter(offered))

C11_Witness ==
    /\ finalized # NotFinalized
    /\ reducer.preferences = <<>>
    /\ allDistinct
    /\ inserts = 2 /\ reducer.top_k = 2
    /\ Len(finalized) = 2
    /\ finalized[1][2] = finalized[2][2]

\* C12: with top_k = 1 and an empty preference list finalize returns the empty
\* vector when nothing was inserted, and otherwise exactly the minimum under
\* (cost, action_idx) of all pairs offered, whatever their order.
C12_TopOneIsMinimum ==
    (/\ finalized # NotFinalized
     /\ reducer.preferences = <<>>
     /\ reducer.top_k = 1) =>
      IF inserts = 0 THEN finalized = <<>>
      ELSE finalized = <<<<MinPair(offered)[2], MinPair(offered)[1]>>>>

C12_Witness ==
    /\ finalized # NotFinalized
    /\ reducer.preferences = <<>>
    /\ reducer.top_k = 1
    /\ inserts = 3
    /\ Cardinality(offered) = 3
    /\ \E x, y \in offered : x # y /\ x[1] = y[1] /\ x[1] = finalized[1][2]
    /\ lastInsert.cand # MinPair(offered)

HeldIndicesUnique(results) ==
    \A x, y \in results : x[2] = y[2] => x = y

Frames ==
    UNION {{workers[w].stack[i] : i \in 1 .. Len(workers[w].stack)} :
             w \in 1 .. Len(workers)}

\* Every event logged so far, the workers' not yet joined included, with the
\* worker tag stripped.
AllEvents ==
    {Tail(log[i]) : i \in 1 .. Len(log)}
    \cup UNION {{workers[w].log[i] : i \in 1 .. Len(workers[w].log)} :
                  w \in 1 .. Len(workers)}

AllFail(s) == \A a \in 0 .. NumActions - 1 : ApplyAction(s, a).kind = "fail"

DependsOnAllFail(s, a) ==
    /\ ApplyAction(s, a).kind = "node"
    /\ \E j \in 1 .. Len(ApplyAction(s, a).subspecs) : AllFail(ApplyAction(s, a).subspecs[j])

NoneFromAllFail(s, vec) == \A i \in 1 .. Len(vec) : ~DependsOnAllFail(s, vec[i][1])

\* The sub-Spec a request of Spec s stands for (one job: no rotation).
SubspecOfRequest(s, id) ==
    LET IsNode(a) == ApplyAction(s, a).kind = "node"
        nodes == SelectSeq(RotatedOrder(NumActions, 0, 1), IsNode)
    IN ApplyAction(s, nodes[id[1] + 1]).subspecs[id[2] + 1]

InSeq(x, q) == \E i \in 1 .. Len(q) : q[i] = x

\* The request is still recorded in one of the frame's request maps.
RequestPending(c, subspec, req) ==
    \/ InSeq(req, c.working_block_requests[subspec])
    \/ InSeq(req, c.cur[subspec])
    \/ \E k \in 1 .. Len(c.iter) : InSeq(req, c.iter[k][subspec])
    \/ \E k \in 1 .. Len(c.subblock_requests) : InSeq(req, c.subblock_requests[k][subspec])

\* C14: a Spec all of whose actions fail application is Complete with an
\* empty result as soon as its task exists and is stored as empty; every
\* request resolved for it carries cost None; a partial Impl with such a
\* sub-Spec is never Sat, is Unsat once its request for it is no longer
\* pending, and its action is in no reducer and no result.
C14_AllFailIsUnsat ==
    /\ \A s \in Specs :
         /\ (AllFail(s) /\ db[s].present) => db[s].value = <<>>
         /\ NoneFromAllFail(s, db[s].value)
    /\ \A e \in AllEvents :
         (e[1] = "resolve" /\ AllFail(SubspecOfRequest(e[2], e[3]))) => e[4] = None
    /\ \A c \in Frames : \A s \in Specs :
         LET t == c.working_set[s] IN
         /\ (AllFail(s) /\ t.state # "Absent") =>
               (t.state = "Complete" /\ t.result = <<>>)
         /\ t.state = "Complete" => NoneFromAllFail(s, t.result)
         /\ t.state = "Running" =>
              /\ \A x \in t.reducer.results : ~DependsOnAllFail(s, x[2])
              /\ \A i \in 1 .. Len(t.partial_impls) :
                   LET p == t.partial_impls[i] IN
                   \A j \in 1 .. Len(p.subspecs) :
                     AllFail(p.subspecs[j]) =>
                       /\ p.state # "Sat"
                       /\ (/\ j <= t.request_batches_returned
                           /\ ~RequestPending(c, p.subspecs[j], <<s, <<i - 1, j - 1>>>>))
                            => p.state = "Unsat"

\* The goal has a partial Impl whose all-fail sub-Spec lies in another page and
\* was resolved with None while the goal was still waiting for another
\* request; the goal ends with a result from its other action.
C14_Witness ==
    /\ call.status = "done"
    /\ call.combined_results[1] # <<>>
    /\ \E a \in 0 .. NumActions - 1 : DependsOnAllFail(NumSpecs - 1, a)
    /\ \E e \in AllEvents :
         /\ e[1] = "resolve" /\ e[2] = NumSpecs - 1 /\ e[4] = None /\ e[5] = "routed"
         /\ AllFail(SubspecOfRequest(e[2], e[3]))
    /\ \E e \in AllEvents :
         /\ e[1] = "resolve" /\ e[2] = NumSpecs - 1 /\ e[4] # None

\* C16: top_down on any world (sub-Specs are strictly lower Specs, so the
\* dependency relation is finite and acyclic) ends: the call returns, and
\* whenever a block leaves its wave loop its running count is zero and every
\* task of its working set is Complete.
C16_SynthesisTerminates ==
    /\ <>(call.status = "done")
    /\ [](\A c \in Frames :
            c.pc \in {"seal", "return"} =>
              (c.working_set_running = 0 /\ RunningKeys(c) = {}))

\* A call that returned after a block swept its Running tasks and after a
\* recursive synthesize call that itself recursed.
C16_Witness ==
    /\ call.status = "done"
    /\ workers = <<>>
    /\ \E e \in AllEvents : e[1] = "sweep"
    /\ \E e \in AllEvents : e[1] = "returned" /\ e[2] = 2
    /\ \E e \in AllEvents : e[1] = "start" /\ e[2] = 0

\* The events of a one-job call in the order they happened: the joined page
\* groups' and then the running worker's.
EventSeq ==
    [i \in 1 .. Len(log) |-> Tail(log[i])]
    \o (IF workers = <<>> THEN <<>> ELSE workers[1].log)

RECURSIVE CountIn(_, _, _)
CountIn(events, kind, s) ==
    IF events = <<>> THEN 0
    ELSE (IF events[1][1] = kind /\ events[1][2] = s THEN 1 ELSE 0)
         + CountIn(Tail(events), kind, s)

\* Walks the events with the stack of open synthesize invocations, each with
\* the Specs it started and put, and the set of Specs put so far: no frame
\* starts or puts a Spec twice, and no Spec is started once it was put.
RECURSIVE OncePerFrame(_, _, _)
OncePerFrame(events, stack, stored) ==
    IF events = <<>> THEN TRUE
    ELSE
    LET e == events[1]
        n == Len(stack)
    IN  CASE e[1] = "joined" -> OncePerFrame(Tail(events), <<>>, stored)
          [] e[1] = "synthesize" ->
               OncePerFrame(Tail(events),
                            Append(stack, [started |-> {}, put |-> {}]), stored)
          [] e[1] = "returned" ->
               OncePerFrame(Tail(events), SubSeq(stack, 1, n - 1), stored)
          [] e[1] = "start" ->
               /\ n > 0
               /\ e[2] \notin stack[n].started
               /\ e[2] \notin stored
               /\ OncePerFrame(Tail(events),
                               [stack EXCEPT ![n].started = @ \cup {e[2]}], stored)
          [] e[1] = "put" ->
               /\ n > 0
               /\ e[2] \notin stack[n].put
               /\ OncePerFrame(Tail(events),
                               [stack EXCEPT ![n].put = @ \cup {e[2]}],
                               stored \cup {e[2]})
          [] OTHER -> OncePerFrame(Tail(events), stack, stored)

\* C17 (as claimed): with one job, over all the frames of the call
\* SpecTask::start runs at most once per Spec and put is called at most once
\* per Spec.
C17_Original ==
    \A s \in Specs :
      /\ CountIn(EventSeq, "start", s) <= 1
      /\ CountIn(EventSeq, "put", s) <= 1

\* C17 (what holds instead): with one job, each invocation of synthesize
\* starts a Spec at most once and puts it at most once, no Spec is started
\* after it was put, and every put of a Spec stores the same result.
C17_OncePerFrame ==
    /\ OncePerFrame(EventSeq, <<>>, {})
    /\ \A e1, e2 \in AllEvents :
         (e1[1] = "put" /\ e2[1] = "put" /\ e1[2] = e2[2]) => e1[3] = e2[3]

\* The call ended after Spec 0 was started twice and put twice: by the
\* top-level invocation and by a nested one that came back to its page.
C17_Witness ==
    /\ call.status = "done"
    /\ CountIn(EventSeq, "start", 0) = 2
    /\ CountIn(EventSeq, "put", 0) = 2

\* The goal lists of the top-level synthesize calls among the events, in
\* order: the calls made while no other invocation is open.
RECURSIVE TopLevelCalls(_, _)
TopLevelCalls(events, depth) ==
    IF events = <<>> THEN <<>>
    ELSE LET e == events[1] IN
         CASE e[1] = "joined" -> TopLevelCalls(Tail(events), 0)
           [] e[1] = "synthesize" ->
                (IF depth = 0 THEN <<e[2]>> ELSE <<>>)
                \o TopLevelCalls(Tail(events), depth + 1)
           [] e[1] = "returned" -> TopLevelCalls(Tail(events), depth - 1)
           [] OTHER -> TopLevelCalls(Tail(events), depth)

GoalPages == {PageOf(Canonicalize(call.goals[i])) : i \in 1 .. Len(call.goals)}

\* C18: with one job, every top-level synthesize call gets all the canonical
\* goals of one page, no two top-level calls get the same page, and a call
\* that returned made as many top-level calls as there are distinct pages
\* among its canonical goals.
C18_OneTopLevelCallPerPage ==
    call.jobs = 1 =>
      LET calls == TopLevelCalls(EventSeq, 0) IN
      /\ \A k \in 1 .. Len(calls) :
           /\ calls[k] # <<>>
           /\ {calls[k][j] : j \in 1 .. Len(calls[k])} =
                {Canonicalize(call.goals[i]) : i \in
                   {i2 \in 1 .. Len(call.goals) :
                      PageOf(Canonicalize(call.goals[i2])) = PageOf(calls[k][1])}}
      /\ \A k1, k2 \in 1 .. Len(calls) :
           k1 # k2 => PageOf(calls[k1][1]) # PageOf(calls[k2][1])
      /\ call.status = "done" => Len(calls) = Cardinality(GoalPages)

\* A call on two distinct goals of one page returned after one top-level
\* synthesize call that recursed into another page.
C18_Witness ==
    /\ call.status = "done"
    /\ Len(call.goals) = 2
    /\ Canonicalize(call.goals[1]) # Canonicalize(call.goals[2])
    /\ Cardinality(GoalPages) = 1
    /\ Len(TopLevelCalls(EventSeq, 0)) = 1
    /\ CountIn(EventSeq, "returned", 1) >= 1

\* C19 (as claimed): every invocation of synthesize, top-level or recursive
\* and whatever the number of jobs, receives pairwise-distinct goals that all
\* lie in one page.
C19_Original ==
    \A e \in AllEvents :
      e[1] = "synthesize" =>
        /\ IsInjective(e[2])
        /\ \A i, j \in 1 .. Len(e[2]) : PageOf(e[2][i]) = PageOf(e[2][j])

\* C20: whenever a block is at the quiescence test of its wave loop (the
\* outbox drained, every sub-block processed), working_set_running is the
\* number of Running tasks in its working set, and the count never went
\* below zero.
C20_RunningCountAtQuiescence ==
    \A c \in Frames :
      /\ c.pc = "quiesce" => RunningCountMatches(c)
      /\ c.panic # "attempt to subtract with overflow"

\* A block at the quiescence test with one task still Running and another
\* that was Running and has been completed by a routed resolution.
C20_Witness ==
    \E c \in Frames :
      /\ c.pc = "quiesce"
      /\ c.working_set_running = 1
      /\ Cardinality(RunningKeys(c)) = 1
      /\ \E s \in Specs :
           /\ c.working_set[s].state = "Complete"
           /\ ~c.working_set[s].from_db
           /\ c.working_set[s].result # <<>>
           /\ \E e \in AllEvents : e[1] = "resolve" /\ e[2] = s /\ e[5] = "routed"

\* C21: a block that has left its wave loop has no request mapping left: its
\* intra-block routing table, its sub-block bucket list (taken or not) and
\* its outbox are empty.
C21_NoOrphanedRequests ==
    \A c \in Frames :
      c.pc = "seal" =>
        /\ Keys(c.working_block_requests) = {}
        /\ c.subblock_requests = <<>>
        /\ c.iter = <<>>
        /\ Keys(c.cur) = {}
        /\ c.outbox = <<>>

\* A block left its wave loop after it had routed requests within the block,
\* drained its outbox and resolved the requests of a sub-block.
C21_Witness ==
    \E w \in 1 .. Len(workers) :
      /\ Len(workers[w].stack) = 1
      /\ workers[w].stack[1].pc = "seal"
      /\ Cardinality({s \in Specs : workers[w].stack[1].working_set[s].state = "Complete"}) = 2
      /\ \E i \in 1 .. Len(workers[w].log) : workers[w].log[i][1] = "drain"
      /\ \E i \in 1 .. Len(workers[w].log) :
           workers[w].log[i][1] = "resolve" /\ workers[w].log[i][5] = "routed"
      /\ \E i \in 1 .. Len(workers[w].log) : workers[w].log[i][1] = "returned"

\* The events a step added to the log of worker w.
NewEvents(w) ==
    SubSeq(workers'[w].log, Len(workers[w].log) + 1, Len(workers'[w].log))

\* C22: a step of a block puts to the database only when it is the seal (the
\* wave loop has exited); the seal puts each task of the working set that is
\* not from the database exactly once, with the task's result, puts no task
\* that came from a database hit, and the database afterwards holds exactly
\* those results in addition.
C22_PutsOnlyAtSeal ==
    [][\A w \in 1 .. Len(workers) :
         Len(workers') = Len(workers) =>
           IF workers[w].status = "running" /\ TopFrame(w).pc = "seal"
           THEN LET c == TopFrame(w) IN
                /\ \A s \in Specs :
                     LET t == c.working_set[s]
                         fresh == t.state = "Complete" /\ ~t.from_db
                     IN /\ CountIn(NewEvents(w), "put", s) = IF fresh THEN 1 ELSE 0
                        /\ fresh => /\ InSeq(<<"put", s, t.result>>, NewEvents(w))
                                    /\ db'[s] = [present |-> TRUE, value |-> t.result]
                        /\ ~fresh => db'[s] = db[s]
           ELSE /\ \A s \in Specs : CountIn(NewEvents(w), "put", s) = 0
                /\ db' = db]_vars

\* A call ended after a block that held a task from a database hit sealed:
\* the Spec was put once (by the block that solved it), its holder from the
\* database put only its other tasks.
C22_Witness ==
    /\ call.status = "done"
    /\ \E s \in Specs :
         /\ InSeq(<<"get", s, TRUE>>, EventSeq)
         /\ CountIn(EventSeq, "put", s) = 1
         /\ db[s].value # <<>>
    /\ \A s \in Specs : CountIn(EventSeq, "put", s) >= 1

\* The worker's step is a re-sweep of its innermost block.
IsSweep(w) ==
    /\ workers[w].status = "running"
    /\ TopFrame(w).pc = "quiesce"
    /\ TopFrame(w).working_set_running # 0

\* C23 (as claimed): a re-sweep calls next_request_batch exactly once on every
\* task that is Running when it starts, and no task emits more than one
\* batch in it.
C23_Original ==
    [][\A w \in 1 .. Len(workers) :
         (Len(workers') = Len(workers) /\ IsSweep(w)) =>
           /\ \A s \in RunningKeys(TopFrame(w)) :
                CountIn(NewEvents(w), "next", s) = 1
           /\ \A s \in Specs : CountIn(NewEvents(w), "batch", s) <= 1]_vars

\* A request of an earlier batch of Running task s of block c is still
\* recorded in a request map of the block although a later batch was emitted.
EarlierBatchPending(c, s) ==
    LET t == c.working_set[s] IN
    /\ t.state = "Running"
    /\ \E i \in 1 .. Len(t.partial_impls) :
         \E j \in 1 .. Len(t.partial_impls[i].subspecs) :
           /\ j < t.request_batches_returned
           /\ RequestPending(c, t.partial_impls[i].subspecs[j], <<s, <<i - 1, j - 1>>>>)

\* C24 (as claimed): batch b+1 of a task is never emitted while a request of
\* its batch b is unresolved.
C24_Original == \A c \in Frames : \A s \in Specs : ~EarlierBatchPending(c, s)

\* C24 (amended): every re-sweep re-enters every task that is Running and has
\* a batch left, whether or not requests of its earlier batches are
\* resolved: the task emits the batch of the next sub-Spec position, with a
\* request for each partial that is still Constructing and has that position.
C24_ReenteredAtEverySweep ==
    [][\A w \in 1 .. Len(workers) :
         (Len(workers') = Len(workers) /\ IsSweep(w)) =>
           \A s \in RunningKeys(TopFrame(w)) :
             LET t == TopFrame(w).working_set[s] IN
             t.request_batches_returned < t.max_children =>
               InSeq(<<"batch", s, t.request_batches_returned,
                       BatchOf(t.partial_impls, t.request_batches_returned, 1)>>,
                     NewEvents(w))]_vars

\* A task has emitted its second batch while the request of its first batch
\* still waits in the intra-block routing table.
C24_Witness ==
    \E c \in Frames : \E s \in Specs :
      /\ EarlierBatchPending(c, s)
      /\ c.working_set[s].request_batches_returned = 2
      /\ \E x \in Specs : InSeq(<<s, <<0, 0>>>>, c.working_block_requests[x])

\* Walks the events of a step: while the batch of task open is being routed
\* (from its "batch" event to its "batch_end"), no batch of another task is
\* emitted and no request of another task is routed or resolved.
RECURSIVE Unmixed(_, _)
Unmixed(events, open) ==
    IF events = <<>> THEN TRUE
    ELSE LET e == events[1] IN
         CASE e[1] = "batch" ->
                (open = None \/ open = Some(e[2])) /\ Unmixed(Tail(events), Some(e[2]))
           [] e[1] = "batch_end" -> Unmixed(Tail(events), None)
           [] e[1] \in {"request", "resolve"} ->
                (open = None \/ open = Some(e[2])) /\ Unmixed(Tail(events), open)
           [] OTHER -> Unmixed(Tail(events), open)

\* C25 (as claimed): while the requests of one task's batch are being
\* routed, no request of another task's batch is emitted or routed.
C25_Original ==
    [][\A w \in 1 .. Len(workers) :
         Len(workers') = Len(workers) => Unmixed(NewEvents(w), None)]_vars

\* Walks the events of a step with the stack of the batches being routed,
\* each with the sub-Spec of the request it is routing (-1 before the first).
\* A batch is emitted either with no batch open or by the task that the open
\* request of the innermost batch asks for; requests, in-place resolutions,
\* outbox pushes and the end of a batch belong to the innermost batch; no
\* routed resolution and no drain happens while a batch is open.
RECURSIVE Nested(_, _)
Nested(events, stack) ==
    IF events = <<>> THEN stack = <<>>
    ELSE LET e == events[1]
             n == Len(stack)
         IN
         CASE e[1] = "batch" ->
                /\ n > 0 => stack[n][2] = e[2]
                /\ \A k \in 1 .. n : stack[k][1] # e[2]
                /\ Nested(Tail(events), Append(stack, <<e[2], -1>>))
           [] e[1] = "request" ->
                /\ n > 0
                /\ stack[n][1] = e[2]
                /\ Nested(Tail(events), [stack EXCEPT ![n][2] = e[3]])
           [] e[1] = "resolve" ->
                /\ IF e[5] = "inplace"
                   THEN n > 0 /\ stack[n][1] = e[2] /\ stack[n][2] # -1
                   ELSE n = 0
                /\ Nested(Tail(events), stack)
           [] e[1] = "outbox" ->
                n > 0 /\ stack[n][1] = e[2] /\ Nested(Tail(events), stack)
           [] e[1] = "batch_end" ->
                n > 0 /\ stack[n][1] = e[2]
                /\ Nested(Tail(events), SubSeq(stack, 1, n - 1))
           [] e[1] = "drain" -> n = 0 /\ Nested(Tail(events), stack)
           [] OTHER -> Nested(Tail(events), stack)

\* C25 (amended): batches of different tasks of a block are nested, never
\* mixed otherwise: a batch emitted while another is being routed belongs to
\* the sub-Spec the open request of that batch asks for, and it is routed to
\* its end before the enclosing batch goes on; waiters are resolved through
\* the routing table only while no batch is open.
C25_BatchesNested ==
    [][\A w \in 1 .. Len(workers) :
         (Len(workers') = Len(workers) /\ workers'[w].status # "panicked") =>
           Nested(NewEvents(w), <<>>)]_vars

\* A task's batch was emitted and routed to its end between a request of
\* another task's batch and the mapping of that request.
C25_Witness ==
    \E i \in 1 .. Len(EventSeq) :
      /\ i + 4 <= Len(EventSeq)
      /\ EventSeq[i][1] = "request"
      /\ \E j \in i + 1 .. Len(EventSeq) - 1 :
           /\ EventSeq[j][1] = "batch"
           /\ EventSeq[j][2] = EventSeq[i][3]
           /\ \A k \in i + 1 .. j : EventSeq[k][1] \in {"get", "start", "next", "batch"}
           /\ \E m \in j + 1 .. Len(EventSeq) - 1 :
                /\ EventSeq[m] = <<"batch_end", EventSeq[i][3]>>
                /\ EventSeq[m + 1][1] = "request"
                /\ EventSeq[m + 1][2] = EventSeq[i][2]

BorrowPanics == {"already borrowed: BorrowMutError",
                 "already mutably borrowed: BorrowError"}

\* C26: the sub-Spec relation of the model is acyclic (sub-Specs are lower
\* Specs), and no block ever stops on a RefCell borrow panic: no task is
\* borrowed while it is mutably borrowed lower on the call stack; between
\* the steps of a block no borrow is outstanding.
C26_NoReentrantBorrow ==
    /\ \A s \in Specs : \A a \in 0 .. NumActions - 1 :
         ApplyAction(s, a).kind = "node" =>
           \A j \in 1 .. Len(ApplyAction(s, a).subspecs) :
             ApplyAction(s, a).subspecs[j] < s
    /\ \A c \in Frames :
         /\ c.panic \notin BorrowPanics
         /\ c.panic = "" => c.borrowed = {}

\* A task completed in place while the task waiting for it was mutably
\* borrowed lower on the stack: inside the second batch of task r, the visit
\* of Spec s completed task s, for which r's earlier request is recorded in
\* the routing table; the completion sits in the outbox.
C26_Witness ==
    \E c \in Frames : \E s, r \in Specs :
      /\ c.panic = ""
      /\ \E k \in 1 .. Len(c.outbox) : c.outbox[k][1] = s
      /\ InSeq(<<r, <<0, 0>>>>, c.working_block_requests[s])
      /\ \E i, j, k \in 1 .. Len(EventSeq) :
           /\ i < j /\ j < k
           /\ EventSeq[i][1] = "batch" /\ EventSeq[i][2] = r /\ EventSeq[i][3] = 1
           /\ EventSeq[j] = <<"outbox", s>>
           /\ EventSeq[k] = <<"batch_end", r>>
           /\ \A m \in i .. k - 1 : EventSeq[m] # <<"batch_end", r>>

IsPrefix(p, q) == Len(p) <= Len(q) /\ SubSeq(q, 1, Len(p)) = p

\* The worker's step is the top of a wave of its innermost block.
IsWaveTop(w) ==
    /\ workers[w].status = "running"
    /\ TopFrame(w).pc = "wave"

\* C27: a step in which an in-place resolution completed task s leaves
\* (s, result of s) in the outbox of the block, resolves no waiter through
\* the routing table and removes no mapping from it; the next step of the
\* block, the top of the wave, drains the outbox: every waiter recorded for s
\* and still Running is resolved with the first cost of s's result, and the
\* mappings of s and the outbox are gone.
C27_CompletionGoesThroughOutbox ==
    [][\A w \in 1 .. Len(workers) :
         (Len(workers') = Len(workers) /\ workers'[w].status = "running") =>
           LET after == workers'[w].stack[Len(workers'[w].stack)] IN
           /\ \A s \in Specs :
                InSeq(<<"outbox", s>>, NewEvents(w)) =>
                  /\ after.pc = "wave"
                  /\ after.working_set[s].state = "Complete"
                  /\ InSeq(<<s, after.working_set[s].result>>, after.outbox)
                  /\ \A i \in 1 .. Len(NewEvents(w)) :
                       /\ NewEvents(w)[i][1] # "drain"
                       /\ NewEvents(w)[i][1] = "resolve" => NewEvents(w)[i][5] = "inplace"
                  /\ Len(workers'[w].stack) = Len(workers[w].stack) =>
                       \A x \in Specs :
                         IsPrefix(TopFrame(w).working_block_requests[x],
                                  after.working_block_requests[x])
           /\ IsWaveTop(w) =>
                /\ after.outbox = <<>>
                /\ \A k \in 1 .. Len(TopFrame(w).outbox) :
                     LET s == TopFrame(w).outbox[k][1]
                         rs == TopFrame(w).working_block_requests[s]
                     IN /\ InSeq(<<"drain", s>>, NewEvents(w))
                        /\ after.working_block_requests[s] = <<>>
                        /\ \A i \in 1 .. Len(rs) :
                             \/ InSeq(<<"resolve", rs[i][1], rs[i][2],
                                        FirstCost(TopFrame(w).outbox[k][2]), "routed">>,
                                      NewEvents(w))
                             \/ TopFrame(w).working_set[rs[i][1]].state = "Complete"]_vars

\* The top of a wave drained the completion of a task that had completed in
\* place with a cost and resolved its waiter, which completed in turn.
C27_Witness ==
    \E i \in 1 .. Len(EventSeq) - 2 :
      /\ EventSeq[i][1] = "drain"
      /\ EventSeq[i + 1][1] = "resolve"
      /\ EventSeq[i + 1][4] # None
      /\ EventSeq[i + 1][5] = "routed"
      /\ InSeq(<<"outbox", EventSeq[i][2]>>, SubSeq(EventSeq, 1, i))
      /\ \E c \in Frames :
           /\ c.working_set[EventSeq[i + 1][2]].state = "Complete"
           /\ c.working_set[EventSeq[i + 1][2]].result # <<>>

\* C28: when a recursive synthesize returns, every task of the calling block
\* that the step completed (by a result of the sub-block or by the cascade)
\* has had its waiters resolved in the same step, before the next sub-block
\* is called: its mappings are gone from the routing table and each waiter
\* still Running was resolved with the first cost of its result.
C28_CascadeOnReturn ==
    [][\A w \in 1 .. Len(workers) :
         (/\ Len(workers') = Len(workers)
          /\ Len(workers'[w].stack) = Len(workers[w].stack) - 1
          /\ workers'[w].status = "running") =>
           LET n == Len(workers'[w].stack)
               before == workers[w].stack[n]
               after == workers'[w].stack[n]
           IN \A r \in Specs :
                (before.working_set[r].state = "Running"
                 /\ after.working_set[r].state = "Complete") =>
                  /\ after.working_block_requests[r] = <<>>
                  /\ after.outbox = <<>>
                  /\ \A i \in 1 .. Len(before.working_block_requests[r]) :
                       LET x == before.working_block_requests[r][i] IN
                       \/ InSeq(<<"resolve", x[1], x[2],
                                  FirstCost(after.working_set[r].result), "routed">>,
                                NewEvents(w))
                       \/ before.working_set[x[1]].state = "Complete"]_vars

\* A sub-block returned, its result completed a task of the calling block
\* with a cost, and the cascade completed the task that waited for it.
C28_Witness ==
    \E i \in 1 .. Len(EventSeq) - 2 :
      /\ EventSeq[i][1] = "resolve" /\ EventSeq[i][5] = "routed"
      /\ EventSeq[i + 1][1] = "resolve" /\ EventSeq[i + 1][5] = "routed"
      /\ EventSeq[i + 1][4] # None
      /\ EventSeq[i + 2][1] = "returned"
      /\ EventSeq[i][2] # EventSeq[i + 1][2]
      /\ SubspecOfRequest(EventSeq[i + 1][2], EventSeq[i + 1][3]) = EventSeq[i][2]
      /\ PageOf(SubspecOfRequest(EventSeq[i][2], EventSeq[i][3])) # PageOf(EventSeq[i][2])

\* The worker's step is a recursive synthesize call on the next sub-block of
\* its innermost block.
IsCallSubblock(w) ==
    /\ Len(workers[w].stack) >= 1
    /\ Len(workers'[w].stack) = Len(workers[w].stack) + 1

\* C29 (as claimed): before the recursive call on a sub-block that is not the
\* last the block prefetches a key of the next sub-block; before the call on
\* the last it prefetches its own prefetch_after hint.
C29_Original ==
    [][\A w \in 1 .. Len(workers) :
         (Len(workers') = Len(workers) /\ IsCallSubblock(w)) =>
           LET c == TopFrame(w)
               rest == Tail(c.iter)
               ev == NewEvents(w)
           IN IF rest # <<>>
              THEN /\ ev[1][1] = "prefetch"
                   /\ ev[1][2] \in Keys(rest[1])
                   /\ ev[2][1] = "synthesize"
              ELSE c.prefetch_after # None =>
                     /\ ev[1] = <<"prefetch", c.prefetch_after[1]>>
                     /\ ev[2][1] = "synthesize"]_vars

\* C29 (amended): before the recursive call on a sub-block that is not the
\* last the block issues no prefetch: it hands a key of the next sub-block to
\* the callee as the callee's prefetch_after.  Before the call on the last
\* sub-block it prefetches its own prefetch_after if it has one, and the
\* callee gets no hint.  The callee's goals are the keys of the sub-block.
C29_HintPushedDown ==
    [][\A w \in 1 .. Len(workers) :
         (Len(workers') = Len(workers) /\ IsCallSubblock(w)) =>
           LET c == TopFrame(w)
               rest == Tail(c.iter)
               ev == NewEvents(w)
               Call(e, hints) ==
                 /\ e[1] = "synthesize"
                 /\ {e[2][i] : i \in 1 .. Len(e[2])} = Keys(c.iter[1])
                 /\ e[3] \in hints
           IN IF rest # <<>>
              THEN Call(ev[1], {Some(k) : k \in Keys(rest[1])})
              ELSE IF c.prefetch_after # None
              THEN ev[1] = <<"prefetch", c.prefetch_after[1]>> /\ Call(ev[2], {None})
              ELSE Call(ev[1], {None})]_vars

\* A block with two sub-blocks called the first with a key of the second as
\* hint, and the callee prefetched that key before the call on its own last
\* sub-block.
C29_Witness ==
    \E i, j \in 1 .. Len(EventSeq) - 1 :
      /\ i < j
      /\ EventSeq[i][1] = "synthesize"
      /\ EventSeq[i][3] # None
      /\ EventSeq[j] = <<"prefetch", EventSeq[i][3][1]>>
      /\ EventSeq[j + 1][1] = "synthesize"
      /\ EventSeq[j + 1][3] = None

\* The reducer after the inserts of the actions idxs of Spec s, in order.
RECURSIVE InsertAll(_, _, _)
InsertAll(r, s, idxs) ==
    IF idxs = <<>> THEN r
    ELSE InsertAll(ImplReducerInsert(r, idxs[1], ApplyAction(s, idxs[1]).cost),
                   s, Tail(idxs))

\* The preferences SpecTask::start is evaluated with.
StartPreferences == {None, Some(<<NumActions - 1>>)}

\* What SpecTask::start is to yield for Spec s.
StartedAsSpecified(s, preferences, top_k, thread_idx, thread_count) ==
    LET t == SpecTaskStart(s, preferences, top_k, thread_idx, thread_count)
        order == RotatedOrder(NumActions, thread_idx, thread_count)
        IsNode(a) == ApplyAction(s, a).kind = "node"
        IsLeaf(a) == ApplyAction(s, a).kind = "leaf"
        nodes == SelectSeq(order, IsNode)
        direct == InsertAll(ImplReducerNew(top_k, IF preferences = None THEN <<>>
                                                  ELSE preferences[1]),
                            s, SelectSeq(order, IsLeaf))
    IN /\ t.state = "Complete" <=> nodes = <<>>
       /\ nodes = <<>> => t = Complete(ImplReducerFinalize(direct), FALSE)
       /\ nodes # <<>> =>
            /\ t.state = "Running"
            /\ t.reducer = direct
            /\ t.request_batches_returned = 0
            /\ t.partial_impls_incomplete = Len(nodes)
            /\ Len(t.partial_impls) = Len(nodes)
            /\ \A i \in 1 .. Len(nodes) :
                 LET p == t.partial_impls[i] IN
                 /\ p.state = "Constructing"
                 /\ p.producing_action_idx = nodes[i]
                 /\ p.partial_impl = ApplyAction(s, nodes[i])
                 /\ p.subspecs = ApplyAction(s, nodes[i]).subspecs
                 /\ \A j \in 1 .. Len(p.subspecs) : p.subspec_costs[j] = None
            /\ \A i \in 1 .. Len(nodes) : Len(ApplyAction(s, nodes[i]).subspecs) <= t.max_children
            /\ \E i \in 1 .. Len(nodes) : Len(ApplyAction(s, nodes[i]).subspecs) = t.max_children

\* C30: for every Spec a step of a block starts a task for, with any top_k, any
\* rotation and with or without preferences, SpecTask::start yields
\* Complete(result, false) exactly when no applied action has sub-Specs, the
\* result being the finalized reducer over the actions without sub-Specs in
\* enumeration order; otherwise Running with one Constructing partial per
\* applied action with sub-Specs, every slot None, no batch emitted and the
\* reducer holding the directly costed actions.  Failed actions are in
\* neither.
C30_StartYields ==
    [][\A w \in 1 .. Len(workers) :
         Len(workers') = Len(workers) =>
           \A s \in Specs :
             InSeq(<<"start", s>>, NewEvents(w)) =>
               \A top_k \in 1 .. MaxTopK : \A rot \in Rotations :
                 \A preferences \in StartPreferences :
                   StartedAsSpecified(s, preferences, top_k, rot[1], rot[2])]_vars

\* Tasks were started for a Spec with a directly costed action and an action
\* with sub-Specs (Running with a non-empty reducer) and for a Spec with a
\* failing and a directly costed action (Complete with one pair).
C30_Witness ==
    /\ \E s \in Specs :
         /\ <<"start", s>> \in AllEvents
         /\ \E a, b \in 0 .. NumActions - 1 :
              ApplyAction(s, a).kind = "leaf" /\ ApplyAction(s, b).kind = "node"
         /\ SpecTaskStart(s, None, 1, 0, 1).state = "Running"
         /\ SpecTaskStart(s, None, 1, 0, 1).reducer.results # {}
    /\ \E s \in Specs :
         /\ <<"start", s>> \in AllEvents
         /\ \E a, b \in 0 .. NumActions - 1 :
              ApplyAction(s, a).kind = "leaf" /\ ApplyAction(s, b).kind = "fail"
         /\ SpecTaskStart(s, None, 1, 0, 1).state = "Complete"
         /\ Len(SpecTaskStart(s, None, 1, 0, 1).result) = 1

\* The number of partial Impls of task t that are still Constructing.
ConstructingCount(t) ==
    Cardinality({i \in 1 .. Len(t.partial_impls) :
                   t.partial_impls[i].state = "Constructing"})

\* C31: every Running task of every block has partial_impls_incomplete > 0,
\* and the counter is the number of its partials still Constructing.
C31_RunningHasIncomplete ==
    \A c \in Frames : \A s \in Specs :
      c.working_set[s].state = "Running" =>
        /\ c.working_set[s].partial_impls_incomplete > 0
        /\ c.working_set[s].partial_impls_incomplete = ConstructingCount(c.working_set[s])

\* A task is Running with one partial left after a resolution finished its
\* other partial.
C31_Witness ==
    \E c \in Frames : \E s \in Specs :
      LET t == c.working_set[s] IN
      /\ t.state = "Running"
      /\ Len(t.partial_impls) = 2
      /\ t.partial_impls_incomplete = 1
      /\ \E i \in 1 .. 2 : t.partial_impls[i].state = "Sat"

\* The resolve events of Spec s among events.
ResolvesOf(events, s) ==
    LET OnS(e) == e[1] = "resolve" /\ e[2] = s IN SelectSeq(events, OnS)

\* The resolutions rs finish every partial of task t0 that is Constructing:
\* one of them carries no cost, or every empty slot is given a cost.
AllPartialsFinished(t0, rs) ==
    \A i \in 1 .. Len(t0.partial_impls) :
      t0.partial_impls[i].state = "Constructing" =>
        \/ \E k \in 1 .. Len(rs) : rs[k][3][1] = i - 1 /\ rs[k][4] = None
        \/ \A j \in 1 .. Len(t0.partial_impls[i].subspecs) :
             \/ t0.partial_impls[i].subspec_costs[j] # None
             \/ \E k \in 1 .. Len(rs) : rs[k][3] = <<i - 1, j - 1>> /\ rs[k][4] # None

\* Task s of a block went from before to after in a step with the events ev.
\* A Complete task is left as it is, unless the step is the seal that takes
\* it out of the working set.  A task that is Complete after the step and
\* was not before was either entered from the database, or started Complete,
\* or completed by the last resolution of the step, the one that finished
\* its last partial.
CompletesOnce(s, before, after, ev, search, sealing) ==
    /\ before.state = "Complete" =>
         IF sealing THEN after.state = "Absent" ELSE after = before
    /\ (before.state # "Complete" /\ after.state = "Complete") =>
         IF after.from_db
         THEN /\ before.state = "Absent"
              /\ InSeq(<<"get", s, TRUE>>, ev)
              /\ ResolvesOf(ev, s) = <<>>
         ELSE LET t0 == IF before.state = "Running" THEN before
                        ELSE SpecTaskStart(s, None, search.top_k, search.thread_idx,
                                           search.thread_count)
                  rs == ResolvesOf(ev, s)
              IN /\ before.state = "Absent" => InSeq(<<"start", s>>, ev)
                 /\ IF t0.state = "Complete" THEN after = t0 /\ rs = <<>>
                    ELSE /\ rs # <<>>
                         /\ AllPartialsFinished(t0, rs)
                         /\ ~AllPartialsFinished(t0, SubSeq(rs, 1, Len(rs) - 1))

\* C32: in every step of every block a task becomes Complete only at its
\* construction or at the resolution that finishes its last partial, and a
\* Complete task keeps its state and result until the seal of its block.
C32_CompleteOnceAndTerminal ==
    [][\A w \in 1 .. Len(workers) :
         (Len(workers') = Len(workers) /\ workers'[w].status \in {"running", "done"}) =>
           LET n == Len(workers[w].stack)
               m == Len(workers'[w].stack)
           IN \A k \in 1 .. m : \A s \in Specs :
                LET after == workers'[w].stack[k]
                    before == IF k <= n THEN workers[w].stack[k].working_set[s] ELSE Absent
                IN CompletesOnce(s, before, after.working_set[s], NewEvents(w),
                                 after.search,
                                 k = n /\ m = n /\ workers[w].stack[k].pc = "seal")]_vars

\* A block holds a task that was entered from the database and a task that
\* a routed resolution helped complete with a result; a task that started
\* Complete was started too.
C32_Witness ==
    /\ \E c \in Frames : \E s1, s3 \in Specs :
         /\ c.working_set[s1].state = "Complete" /\ c.working_set[s1].from_db
         /\ c.working_set[s3].state = "Complete" /\ ~c.working_set[s3].from_db
         /\ c.working_set[s3].result # <<>>
         /\ \E e \in AllEvents : e[1] = "resolve" /\ e[2] = s3 /\ e[5] = "routed"
    /\ \E s2 \in Specs :
         /\ <<"start", s2>> \in AllEvents
         /\ \A a \in 0 .. NumActions - 1 : ApplyAction(s2, a).kind # "node"

(***************************************************************************)
(* Properties of the SpecTask on its own (checked under TaskSpec).         *)
(***************************************************************************)
\* The partials of task t that batch b asks for: Constructing, with at
\* least b + 1 sub-Specs.
Eligible(t, b) ==
    {i \in 1 .. Len(t.partial_impls) :
        /\ t.partial_impls[i].state = "Constructing"
        /\ Len(t.partial_impls[i].subspecs) >= b + 1}

\* C33: a call of next_request_batch yields a batch exactly when the task is
\* Running with a batch left; batch b holds, by ascending partial index, one
\* request (subspecs[b], (partial_idx, b)) for every partial that is
\* Constructing and has at least b + 1 sub-Specs and nothing else, and the
\* call changes nothing of the task but the number of batches returned.
C33_BatchContents ==
    lastCall.op \in {"batch", "no batch"} =>
      LET t == lastCall.before
          batch == lastCall.batch
      IN IF t.state = "Running" /\ t.request_batches_returned < t.max_children
         THEN LET b == t.request_batches_returned IN
              /\ lastCall.op = "batch"
              /\ spec_task = [t EXCEPT !.request_batches_returned = b + 1]
              /\ Len(batch) = Cardinality(Eligible(t, b))
              /\ \A k \in 1 .. Len(batch) :
                   /\ batch[k][2][1] + 1 \in Eligible(t, b)
                   /\ batch[k][2][2] = b
                   /\ batch[k][1] = t.partial_impls[batch[k][2][1] + 1].subspecs[b + 1]
              /\ \A k \in 1 .. Len(batch) - 1 : batch[k][2][1] < batch[k + 1][2][1]
         ELSE lastCall.op = "no batch" /\ spec_task = t /\ batch = <<>>

\* The second batch of a task was emitted when one of its two-sub-Spec
\* partials was Unsat and the other Constructing: it holds one request.
C33_Witness ==
    /\ lastCall.op = "batch"
    /\ lastCall.before.request_batches_returned = 1
    /\ Len(lastCall.before.partial_impls) = 2
    /\ \A i \in 1 .. 2 : Len(lastCall.before.partial_impls[i].subspecs) = 2
    /\ \E i \in 1 .. 2 : lastCall.before.partial_impls[i].state = "Unsat"
    /\ Len(lastCall.batch) = 1

\* The partial a resolve_request call addressed, as it was before the call.
Addressed == lastCall.before.partial_impls[lastCall.id[1] + 1]

\* C34: resolve_request(id, None) on a Constructing partial of a Running
\* task returns with that partial Unsat, the counter one lower, the reducer
\* and the other partials as they were (the task Complete with the finalized
\* reducer when the counter reaches zero); a later resolve_request addressed
\* to the Unsat partial, with or without a cost, leaves the task as it is.
C34_NoneMakesUnsat ==
    (lastCall.op = "resolve" /\ lastCall.before.state = "Running") =>
      LET t == lastCall.before
          i == lastCall.id[1] + 1
      IN /\ (Addressed.state = "Constructing" /\ lastCall.cost = None) =>
              /\ lastCall.panic = ""
              /\ IF t.partial_impls_incomplete = 1
                 THEN spec_task = Complete(ImplReducerFinalize(t.reducer), FALSE)
                 ELSE spec_task =
                        [t EXCEPT !.partial_impls[i].state = "Unsat",
                                  !.partial_impls_incomplete = @ - 1]
         /\ Addressed.state = "Unsat" =>
              lastCall.panic = "" /\ spec_task = t

\* A resolution with a cost was addressed to a partial that an earlier
\* resolution without a cost had made Unsat, on a task still Running whose
\* other partial has one of its two slots filled.
C34_Witness ==
    /\ lastCall.op = "resolve"
    /\ lastCall.before.state = "Running"
    /\ Addressed.state = "Unsat"
    /\ lastCall.cost # None
    /\ spec_task.partial_impls_incomplete = 1
    /\ \E i \in 1 .. Len(spec_task.partial_impls) :
         /\ spec_task.partial_impls[i].state = "Constructing"
         /\ \E j \in 1 .. Len(spec_task.partial_impls[i].subspec_costs) :
              spec_task.partial_impls[i].subspec_costs[j] # None

C36_Original ==
    [][(/\ lastCall'.op = "resolve"
        /\ lastCall' # lastCall
        /\ \/ lastCall'.before.state # "Running"
           \/ /\ lastCall.op = "resolve"
              /\ lastCall.id = lastCall'.id)
       => \/ lastCall'.panic # ""
          \/ SlotAlreadyResolved(lastCall'.before, lastCall'.id, lastCall'.cost)]_vars

\* C37: for every action count n up to MaxActionCount and every
\* thread_idx < thread_count up to MaxThreadCount, the rotated enumeration
\* starting at thread_idx * n / thread_count has length n and holds every
\* action index of 0 .. n - 1 (so each exactly once), and with thread_idx 0
\* it is 0, 1, .., n - 1.  The enumeration of the task that was just
\* started is one of them.
MaxActionCount == 6
MaxThreadCount == 4

VisitsEachOnce(order, n) ==
    /\ Len(order) = n
    /\ \A a \in 0 .. n - 1 : \E i \in 1 .. n : order[i] = a

C37_RotationIsPermutation ==
    ncalls = 0 =>
    /\ \A n \in 0 .. MaxActionCount : \A thread_count \in 1 .. MaxThreadCount :
         \A thread_idx \in 0 .. thread_count - 1 :
           /\ VisitsEachOnce(RotatedOrder(n, thread_idx, thread_count), n)
           /\ thread_idx = 0 =>
                RotatedOrder(n, thread_idx, thread_count) = [i \in 1 .. n |-> i - 1]
    /\ started.task.state = "Running" =>
         LET order == RotatedOrder(NumActions, started.thread_idx, started.thread_count)
             p == started.task.partial_impls
         IN /\ VisitsEachOnce(order, NumActions)
            /\ \A i, j \in 1 .. Len(p) :
                 i < j => \E a, b \in 1 .. NumActions :
                            /\ a < b
                            /\ order[a] = p[i].producing_action_idx
                            /\ order[b] = p[j].producing_action_idx

\* A task started by the second of two workers: the enumeration began at
\* action 1 and wrapped around to action 0, and both actions gave a partial.
C37_Witness ==
    /\ started.thread_idx = 1
    /\ started.thread_count = 2
    /\ started.task.state = "Running"
    /\ Len(started.task.partial_impls) = 2
    /\ started.task.partial_impls[1].producing_action_idx = 1
    /\ started.task.partial_impls[2].producing_action_idx = 0

\* C38: with top_k = 1 the reducer of a Running task holds, and a task
\* completes with, the least (cost, action index) pair over the goal's
\* actions in their unrotated list: an Impl without sub-Specs counts with its
\* own cost, an action whose partial is Sat with the cost of its node and of
\* its children, any other action not at all.  Neither thread_idx nor the
\* order of the resolutions enters.
PartialOf(partial_impls, a) ==
    {i \in 1 .. Len(partial_impls) : partial_impls[i].producing_action_idx = a}

Candidates(goal, partial_impls) ==
    UNION {LET K(imp) ==
                 CASE imp.kind = "fail" -> {}
                   [] imp.kind = "leaf" -> {<<imp.cost, a>>}
                   [] OTHER ->
                        {<<imp.cost + SumCosts([j \in 1 .. Len(imp.subspecs) |->
                                                  partial_impls[i].subspec_costs[j][1]]),
                           a>> :
                          i \in {k \in PartialOf(partial_impls, a) :
                                   partial_impls[k].state = "Sat"}}
           IN K(ApplyAction(goal, a)) : a \in 0 .. NumActions - 1}

BestOf(S) == IF S = {} THEN <<>> ELSE <<<<MinPair(S)[2], MinPair(S)[1]>>>>

\* The partials after the resolve_request recorded in lastCall.
PartialsAfterCall ==
    LET t == lastCall.before
        i == lastCall.id[1] + 1
        filled == [Addressed.subspec_costs EXCEPT ![lastCall.id[2] + 1] = lastCall.cost]
    IN IF Addressed.state # "Constructing" THEN t.partial_impls
       ELSE IF lastCall.cost = None
            THEN [t.partial_impls EXCEPT ![i].state = "Unsat"]
            ELSE IF \A j \in 1 .. Len(filled) : filled[j] # None
                 THEN [t.partial_impls EXCEPT ![i].state = "Sat",
                                              ![i].subspec_costs = filled]
                 ELSE [t.partial_impls EXCEPT ![i].subspec_costs = filled]

C38_ResultIsLeastPair ==
    started.top_k = 1 =>
      /\ \A a \in 0 .. NumActions - 1 :
           started.task.state = "Running" /\ ApplyAction(started.goal, a).kind = "node" =>
             \E i \in 1 .. Len(started.task.partial_impls) :
               /\ PartialOf(started.task.partial_impls, a) = {i}
               /\ started.task.partial_impls[i].partial_impl = ApplyAction(started.goal, a)
      /\ spec_task.state = "Running" =>
           ImplReducerFinalize(spec_task.reducer)
             = BestOf(Candidates(started.goal, spec_task.partial_impls))
      /\ (spec_task.state = "Complete" /\ ncalls = 0) =>
           spec_task.result = BestOf(Candidates(started.goal, <<>>))
      /\ (/\ spec_task.state = "Complete"
          /\ lastCall.op = "resolve"
          /\ lastCall.before.state = "Running") =>
           spec_task.result = BestOf(Candidates(started.goal, PartialsAfterCall))

\* A task started by the second of two workers, so that action 1 was
\* enumerated before action 0, whose partial for action 1 became Sat first:
\* the resolution that makes the partial of action 0 Sat at the same cost
\* completes the task with action 0.
C38_Witness ==
    /\ started.top_k = 1
    /\ started.thread_idx = 1
    /\ started.thread_count = 2
    /\ lastCall.op = "resolve"
    /\ lastCall.before.state = "Running"
    /\ Len(lastCall.before.partial_impls) = 2
    /\ lastCall.before.partial_impls[1].producing_action_idx = 1
    /\ lastCall.before.partial_impls[1].state = "Sat"
    /\ lastCall.id[1] = 1
    /\ spec_task.state = "Complete"
    /\ spec_task.result # <<>>
    /\ spec_task.result[1][1] = 0
    /\ ImplReducerFinalize(lastCall.before.reducer) = <<<<1, spec_task.result[1][2]>>>>

\* C39: when a block puts the result of a Spec S at its seal, every sub-Spec
\* in another page that the block's task for S requested is present in the
\* database before the seal (the sub-block called for it put it, or it was
\* there as a hit).
\* OpenRequests walks the events with the stack of the open synthesize
\* invocations and yields the <<spec, subspec>> requests of the innermost.
RECURSIVE OpenRequests(_, _)
OpenRequests(events, stack) ==
    IF events = <<>>
    THEN IF stack = <<>> THEN {} ELSE stack[Len(stack)]
    ELSE LET e == events[1]
             n == Len(stack)
         IN CASE e[1] = "joined" -> OpenRequests(Tail(events), <<>>)
              [] e[1] = "synthesize" -> OpenRequests(Tail(events), Append(stack, {}))
              [] e[1] = "returned" -> OpenRequests(Tail(events), SubSeq(stack, 1, n - 1))
              [] e[1] = "request" /\ n > 0 ->
                   OpenRequests(Tail(events),
                                [stack EXCEPT ![n] = @ \cup {<<e[2], e[3]>>}])
              [] OTHER -> OpenRequests(Tail(events), stack)

C39_DependenciesStoredFirst ==
    [][\A w \in 1 .. Len(workers) :
         (Len(workers') = Len(workers) /\ Len(workers) = 1) =>
           \A i \in 1 .. Len(NewEvents(w)) :
             NewEvents(w)[i][1] = "put" =>
               \A r \in OpenRequests(EventSeq, <<>>) :
                 (r[1] = NewEvents(w)[i][2] /\ PageOf(r[2]) # PageOf(r[1]))
                   => db[r[2]].present]_vars

\* Spec 1 was put with an Impl after it requested Spec 0 of another page,
\* which the sub-block called for it had solved and put.
C39_Witness ==
    /\ PageOf(0) # PageOf(1)
    /\ \E e \in AllEvents : e[1] = "request" /\ e[2] = 1 /\ e[3] = 0
    /\ \E e \in AllEvents : e[1] = "put" /\ e[2] = 1 /\ e[3] # <<>>
    /\ \E e \in AllEvents : e[1] = "put" /\ e[2] = 0 /\ e[3] # <<>>
    /\ db[0].present
    /\ db[1].present

(***************************************************************************)
(* Properties of the workers' race on the database (checked under          *)
(* RaceSpec).                                                              *)
(***************************************************************************)
\* The result of a Spec as its actions and the results of its sub-Specs
\* determine it: the least (cost, action index) pair over the unrotated
\* action list, an action with an unsatisfiable sub-Spec giving none.
RECURSIVE ResultOf(_)
ResultOf(s) ==
    BestOf(UNION {LET K(imp) ==
                        CASE imp.kind = "fail" -> {}
                          [] imp.kind = "leaf" -> {<<imp.cost, a>>}
                          [] OTHER ->
                               IF \E j \in 1 .. Len(imp.subspecs) :
                                     ResultOf(imp.subspecs[j]) = <<>>
                               THEN {}
                               ELSE {<<imp.cost
                                         + SumCosts([j \in 1 .. Len(imp.subspecs) |->
                                              ResultOf(imp.subspecs[j])[1][2]]),
                                       a>>}
                  IN K(ApplyAction(s, a)) : a \in 0 .. NumActions - 1})

\* The Specs the goals depend on: a sub-Spec of an action counts when the
\* sub-Specs before it in the action have an Impl (a partial that became
\* Unsat requests nothing more).
RECURSIVE DependenciesOf(_)
DependenciesOf(S) ==
    LET more == S \cup UNION {{ApplyAction(s, a).subspecs[j] :
                                 j \in {i \in 1 .. Len(ApplyAction(s, a).subspecs) :
                                          \A k \in 1 .. i - 1 :
                                            ResultOf(ApplyAction(s, a).subspecs[k]) # <<>>}} :
                              s \in S, a \in 0 .. NumActions - 1}
    IN IF more = S THEN S ELSE DependenciesOf(more)

====
